---- MODULE Spec2Model ----
(***************************************************************************)
(* Model of the yellicode templating worker: the session controller       *)
(* (InternalGenerator, src/src/internal-generator.ts) with the message     *)
(* protocol towards the host, the output stream of each generate call and  *)
(* the file system it writes to.                                           *)
(*                                                                         *)
(* One action is one turn of the Node event loop (a handler together with  *)
(* the promise reactions it queues), or one call made by the template      *)
(* script.                                                                 *)
(***************************************************************************)
EXTENDS Integers, Sequences, FiniteSets, TLC

(* ------------------------------------------------------------------ *)
(* Bounds                                                               *)
(* ------------------------------------------------------------------ *)
MaxCalls == 2        \* generate-family calls made by the template script
MaxBuilds == 1       \* buildModel calls made by the template script
MaxArgs == 4         \* length of the worker's argument vector (SpecArgs)
MaxOps == 5          \* calls a template makes on one StreamWriter (SpecWriter)
MaxDepth == 2        \* withFrozenSloc blocks a template nests (SpecWriter)
MaxFileOps == 3      \* calls a template makes on a StreamWriter that embeds files (SpecRegion)

(* ------------------------------------------------------------------ *)
(* OutputMode (enum, numbered as TypeScript numbers it)                 *)
(* ------------------------------------------------------------------ *)
OverwriteMode == 0
OnceMode == 1
AppendMode == 2
OutputModes == {OverwriteMode, OnceMode, AppendMode}

\* An optional value is a sequence of length 0 (undefined / null) or 1.
None == <<>>
Some(x) == <<x>>
Option(S) == {None} \cup {Some(x) : x \in S}

(* ------------------------------------------------------------------ *)
(* Values                                                               *)
(* ------------------------------------------------------------------ *)
\* Model values are sequences of strings.
Null == <<>>                      \* null
Undefined == <<"undefined">>      \* undefined
Zero == <<"0">>                   \* a JSON value that is not null but falsy: 0, false, ""
Json == <<"json">>                \* plain JSON the ModelReader cannot read
Doc == <<"doc">>                  \* a Yellicode document with a model node
BadDoc == <<"baddoc">>            \* readable by canRead, but readDocument gives nothing
DocModel == <<"doc", "model">>    \* the model node of Doc
ModelData == {Null, Zero, Json, Doc, BadDoc}
BuiltModels == {Null, Json}       \* what a model builder may resolve with
Errors == {<<"E1">>, <<"E2">>}    \* what a model builder may reject with

\* JavaScript truthiness of a model value
Truthy(v) == v \notin {Null, Undefined, Zero}

\* ModelReader.canRead / ModelReader.readDocument (@yellicode/elements)
CanRead(d) == d \in {Doc, BadDoc}
ReadDocument(d) == IF d = Doc THEN Some(DocModel) ELSE None

\* modelTransform.transform(model)
Transform(m) == <<"T">> \o m

(* ------------------------------------------------------------------ *)
(* Files                                                                *)
(* ------------------------------------------------------------------ *)
Paths == {"a", "out/b"}
Absent == <<"ENOENT">>
Nul == "NUL"
Dirname(p) == IF p = "out/b" THEN "out" ELSE "."
Texts == {<<>>, <<"B">>}

VARIABLES
    args,                 \* process.argv (without node and script)
    proc,                 \* "boot", "running", "crashed"
    outputMode,           \* InternalGenerator.outputMode
    templateArgs,         \* InternalGenerator.templateArgs
    modelBuilderResult,   \* InternalGenerator.modelBuilderResult
    modelBuilderPromise,  \* InternalGenerator.modelBuilderPromise: 0 (null) or the build it belongs to
    builds,               \* the buildModel calls
    calls,                \* the generate-family calls
    listeners,            \* process.on('message') listeners, in order of attachment
    micro,                \* promise reactions queued by the running script
    hostPending,          \* getModel requests the host has not answered yet
    fs,                   \* file contents
    dirs,                 \* existing directories
    sent,                 \* the cmd of every message sent to the host, in order
    writer                \* a StreamWriter in the hands of a template callback

vars == <<args, proc, outputMode, templateArgs, modelBuilderResult, modelBuilderPromise,
          builds, calls, listeners, micro, hostPending, fs, dirs, sent, writer>>

CallIds == 1..MaxCalls
BuildIds == 1..MaxBuilds

\* the cmd values of the messages the worker sends
SentCmds == {"processStarted", "generateStarted", "generateFinished", "getModel", "log"}

(* ------------------------------------------------------------------ *)
(* Startup arguments                                                    *)
(* ------------------------------------------------------------------ *)
Tokens == {"--templateArgs", "--outputMode", "append", "once", "overwrite", "bogus", "{}", ""}
ValidJson == {"{}"}

\* InternalGenerator.parseOutputMode
ParseOutputMode(a, index) ==
    IF Len(a) <= index THEN None
    ELSE CASE a[index + 1] = "append" -> Some(AppendMode)
           [] a[index + 1] = "once" -> Some(OnceMode)
           [] a[index + 1] = "overwrite" -> Some(OverwriteMode)
           [] OTHER -> None

\* x || d on an optional OutputMode: null and 0 are falsy
OrElse(x, d) == IF x = None \/ x[1] = 0 THEN d ELSE x[1]

\* InternalGenerator.parseTemplateArgs: [throws, value]
ParseTemplateArgs(a, index) ==
    IF Len(a) <= index THEN [throws |-> FALSE, value |-> Null]
    ELSE IF Len(a[index + 1]) > 0
         THEN IF a[index + 1] \in ValidJson
              THEN [throws |-> FALSE, value |-> <<a[index + 1]>>]
              ELSE [throws |-> TRUE, value |-> Null]       \* JSON.parse: SyntaxError
         ELSE [throws |-> FALSE, value |-> Null]

\* the loop body of parseProcessArgs at position index, on the fields so far
ParseStep(a, index, st) ==
    IF st.throws THEN st
    ELSE IF a[index] = "--templateArgs"
         THEN LET r == ParseTemplateArgs(a, index)
              IN [st EXCEPT !.throws = r.throws,
                            !.templateArgs = IF r.throws THEN @ ELSE r.value]
         ELSE IF a[index] = "--outputMode"
              THEN [st EXCEPT !.outputMode = OrElse(ParseOutputMode(a, index), st.outputMode)]
              ELSE st

RECURSIVE ParseFrom(_, _, _)
ParseFrom(a, index, st) ==
    IF index > Len(a) THEN st ELSE ParseFrom(a, index + 1, ParseStep(a, index, st))

\* InternalGenerator.parseProcessArgs, from the field initialisers
ParseProcessArgs(a) ==
    ParseFrom(a, 1, [throws |-> FALSE, outputMode |-> OverwriteMode, templateArgs |-> Undefined])



(* ------------------------------------------------------------------ *)
(* The state of one generate-family call                                *)
(* ------------------------------------------------------------------ *)
NoModelKinds == {"generate", "generateAsync"}
FromModelKinds == {"generateFromModel", "generateFromModelAsync"}
AsyncKinds == {"generateAsync", "generateFromModelAsync"}

IdleCall ==
    [kind |-> "none",        \* which generate method was called
     file |-> "a",           \* options.outputFile
     optMode |-> None,       \* options.outputMode
     noParse |-> FALSE,      \* options.noParse
     transform |-> FALSE,    \* options.modelTransform is given
     inPlace |-> FALSE,      \* and it changes the model it is given, as the renaming transforms do
     formatter |-> None,     \* options.regionMarkerFormatter
     pc |-> "idle",          \* where the call is
     promise |-> "none",     \* the promise getModel returned: none, pending, resolved, rejected
     model |-> Null,         \* the value that promise resolved with
     chain |-> 0,            \* the build whose promise the call is chained on
     first |-> None,         \* the modelData of the first setModel the listener got
     runs |-> 0,             \* how often the listener ran its parse / transform part
     mode |-> None,          \* the mode generateInternal computed
     existed |-> FALSE,      \* fs.existsSync when generateInternal ran
     pre |-> Absent,         \* file content when generateInternal ran
     stream |-> "none",      \* the write stream: none, opening, open, ended
     flags |-> "-",          \* its flags
     pos |-> 0,              \* its file position
     out |-> <<>>,           \* everything the template wrote
     shared |-> FALSE,       \* another stream was active on the same file meanwhile
     cw |-> None,            \* the StreamWriter the 'open' handler created
     trace |-> <<>>]         \* history: what happened for this call, in order

IdleBuild ==
    [pc |-> "idle",          \* where the call is
     value |-> Null,         \* what modelBuilderPromise resolved with
     promise |-> "none",     \* the promise buildModel returned: none, pending, resolved, rejected
     settled |-> Null,       \* the value or the reason that promise settled with
     error |-> Null,         \* the reason the builder rejected with
     trace |-> <<>>]         \* history: what happened for this call, in order

\* the calls made so far are 1 .. NumCalls
NumCalls == Cardinality({c \in CallIds : calls[c].pc # "idle"})
NumBuilds == Cardinality({k \in BuildIds : builds[k].pc # "idle"})

\* record r with the events es added to its history
Note(r, es) == [r EXCEPT !.trace = @ \o es]

(* ------------------------------------------------------------------ *)
(* File system                                                          *)
(* ------------------------------------------------------------------ *)
\* fs.existsSync
ExistsSync(f, p) == f[p] # Absent

\* FileSystemUtility.ensureDirectory: the directory and its ancestors exist afterwards
EnsureDirectory(d, dir) == d \cup {".", dir}

RECURSIVE Fill(_)
Fill(n) == IF n <= 0 THEN <<>> ELSE <<Nul>> \o Fill(n - 1)

\* write(2) of text at offset pos into content
WriteAt(content, pos, text) ==
    LET base == IF Len(content) < pos THEN content \o Fill(pos - Len(content)) ELSE content
    IN SubSeq(base, 1, pos) \o text \o SubSeq(base, pos + Len(text) + 1, Len(base))

\* what open(2) with the stream's flags leaves in the file: 'w' truncates, 'a' keeps
OpenFile(content, flags) ==
    IF flags = "w" \/ content = Absent THEN <<>> ELSE content

\* the effect of one write of the stream on the file: 'a' appends, 'w' writes at the position
WriteFile(content, flags, pos, text) ==
    IF flags = "a" THEN content \o text ELSE WriteAt(content, pos, text)

(* ------------------------------------------------------------------ *)
(* generateInternal                                                     *)
(* ------------------------------------------------------------------ *)
\* mutant: options.outputMode || this.outputMode, which drops a per-call Overwrite (0)
EffectiveModeTruthy(optMode, default) ==
    IF optMode = None \/ optMode[1] = 0 THEN default ELSE optMode[1]

\* const mode = options.outputMode === undefined ? this.outputMode : options.outputMode
EffectiveMode(optMode, default) == IF optMode = None THEN default ELSE optMode[1]

\* mutant: the stream is always opened with 'w'
FlagsAlwaysTruncate(mode) == "w"

\* const flags = mode === OutputMode.Append ? 'a' : 'w'
Flags(mode) == IF mode = AppendMode THEN "a" ELSE "w"

\* mutant: the short-circuit tests the wrong member of the enum
SkipOnceWrongMode(mode, exists) == mode = OverwriteMode /\ exists

\* mode === OutputMode.Once && fs.existsSync(fullOutputFileName)
SkipOnce(mode, exists) == mode = OnceMode /\ exists

\* a stream that may still touch its file
Active(r) == r.stream \in {"opening", "open"}

\* generateInternal for call c, on the record S of calls, sent and dirs
GenerateInternal(S, c) ==
    LET r == S.calls[c]
        d1 == EnsureDirectory(S.dirs, Dirname(r.file))
        mode == EffectiveMode(r.optMode, outputMode)
        exists == ExistsSync(fs, r.file)
        r1 == Note([r EXCEPT !.mode = Some(mode), !.existed = exists, !.pre = fs[r.file]],
                   <<"generateStarted">>)
        others == {o \in CallIds : o # c /\ S.calls[o].file = r.file /\ Active(S.calls[o])}
    IN IF SkipOnce(mode, exists)
       THEN [calls |-> [S.calls EXCEPT ![c] =
                           Note([r1 EXCEPT !.pc = "skipped"], <<"generateFinished">>)],
             sent |-> S.sent \o <<"generateStarted", "generateFinished">>,
             dirs |-> d1]
       ELSE [calls |-> [o \in CallIds |->
                           IF o = c
                           THEN [r1 EXCEPT !.pc = "opening", !.stream = "opening",
                                           !.flags = Flags(mode), !.shared = others # {}]
                           ELSE IF o \in others THEN [S.calls[o] EXCEPT !.shared = TRUE]
                           ELSE S.calls[o]],
             sent |-> Append(S.sent, "generateStarted"),
             dirs |-> d1]

RECURSIVE GenerateAll(_, _)
\* generateInternal for the calls of the sequence cs, in order
GenerateAll(S, cs) ==
    IF cs = <<>> THEN S ELSE GenerateAll(GenerateInternal(S, Head(cs)), Tail(cs))

Here == [calls |-> calls, sent |-> sent, dirs |-> dirs]

(* ------------------------------------------------------------------ *)
(* getModel                                                             *)
(* ------------------------------------------------------------------ *)
\* mutant: only undefined counts as an empty model, null gets through
IsUndefinedModelData(d) == d = Undefined

\* if (!m.modelData) return reject(...)
IsEmptyModelData(d) == ~Truthy(d)

\* the model the listener takes from the host's data
HostModel(d, noParse) ==
    IF ~noParse /\ CanRead(d)
    THEN LET document == ReadDocument(d)
         IN IF document # None THEN document[1] ELSE Null
    ELSE d

\* if (model && codeModelOptions.modelTransform) transform(model) else model
ApplyTransform(model, transform) ==
    IF Truthy(model) /\ transform THEN Transform(model) ELSE model

\* how often x occurs in the sequence q, and where it occurs first (0: nowhere)
Count(q, x) == Cardinality({i \in DOMAIN q : q[i] = x})
Pos(q, x) == IF \E i \in DOMAIN q : q[i] = x
             THEN CHOOSE i \in DOMAIN q : q[i] = x /\ \A j \in DOMAIN q : q[j] = x => i <= j
             ELSE 0

\* the model a call with options r was given, after its applyTransform: the transforms of
\* PackagedElementTransform change the elements of the model itself and return it
Transformed(model, r) == IF r.inPlace THEN ApplyTransform(model, r.transform) ELSE model

RECURSIVE TransformedBy(_, _, _)
\* model m after the applyTransform of the first n calls of the sequence cs
TransformedBy(m, cs, n) ==
    IF n = 0 THEN m ELSE Transformed(TransformedBy(m, cs, n - 1), calls[cs[n]])

\* settling a promise: only a pending promise changes
Reject(r) == IF r.promise = "pending" THEN [r EXCEPT !.promise = "rejected"] ELSE r
Resolve(r, v) == IF r.promise = "pending" THEN [r EXCEPT !.promise = "resolved", !.model = v] ELSE r

\* record r after its listener got a setModel message with data d
Heard(r, d) == Note([r EXCEPT !.first = IF @ = None THEN Some(d) ELSE @], <<"setModel">>)

\* the 'message' listener of call record r, run on a setModel message with data d
Listener(r, d) ==
    IF IsEmptyModelData(d)
    THEN Reject(Heard(r, d))
    ELSE Resolve([Heard(r, d) EXCEPT !.runs = @ + 1],
                 ApplyTransform(HostModel(d, r.noParse), r.transform))

\* mutant: only a finished build counts, a build still in flight is overlooked
HasModelBuilderResultOnly == Truthy(modelBuilderResult)

\* this.modelBuilderResult || this.modelBuilderPromise
HasModelBuilder == Truthy(modelBuilderResult) \/ modelBuilderPromise # 0

RECURSIVE SeqOfSet(_)
\* the call ids of a set, in ascending order
SeqOfSet(S) ==
    IF S = {} THEN <<>>
    ELSE LET m == CHOOSE x \in S : \A y \in S : x <= y IN <<m>> \o SeqOfSet(S \ {m})

(* ------------------------------------------------------------------ *)
(* Actions                                                              *)
(* ------------------------------------------------------------------ *)
sessionVars == <<outputMode, templateArgs>>
builderVars == <<modelBuilderResult, modelBuilderPromise, builds>>

\* mutant: the constructor does not announce the process
ConstructorSilent ==
    /\ proc = "boot"
    /\ LET st == ParseProcessArgs(args)
       IN IF st.throws
          THEN /\ proc' = "crashed"
               /\ UNCHANGED <<outputMode, templateArgs>>
          ELSE /\ proc' = "running"
               /\ outputMode' = st.outputMode
               /\ templateArgs' = st.templateArgs
    /\ UNCHANGED <<writer, args, builderVars, calls, listeners, micro, hostPending, fs, dirs, sent>>

\* new InternalGenerator(): parseProcessArgs, then processStarted
Constructor ==
    /\ proc = "boot"
    /\ LET st == ParseProcessArgs(args)
       IN IF st.throws
          THEN /\ proc' = "crashed"
               /\ UNCHANGED <<outputMode, templateArgs, sent>>
          ELSE /\ proc' = "running"
               /\ outputMode' = st.outputMode
               /\ templateArgs' = st.templateArgs
               /\ sent' = Append(sent, "processStarted")
    /\ UNCHANGED <<writer, args, builderVars, calls, listeners, micro, hostPending, fs, dirs>>

\* generate / generateAsync, called by the template script
Generate(kind, file, optMode, regionMarkerFormatter) ==
    /\ proc = "running"
    /\ NumCalls < MaxCalls
    /\ LET c == NumCalls + 1
           S == GenerateInternal(
                    [calls |-> [calls EXCEPT ![c] = [IdleCall EXCEPT !.kind = kind, !.file = file,
                                                                      !.optMode = optMode,
                                                                      !.formatter =
                                                                          regionMarkerFormatter]],
                     sent |-> sent, dirs |-> dirs], c)
       IN /\ calls' = S.calls
          /\ sent' = S.sent
          /\ dirs' = S.dirs
    /\ UNCHANGED <<writer, args, proc, sessionVars, builderVars, listeners, micro, hostPending, fs>>

\* mutant: the promise executor attaches no listener
AttachListenerNever(ls, c) == ls

\* process.on('message', ...) in the promise executor of getModel: the listener of call c
\* joins the listeners of the process, which are never removed
AttachListener(ls, c) == Append(ls, c)

\* generateFromModel / generateFromModelAsync, called by the template script: getModel(options)
\* and the reactions attached to its promise
GenerateFromModel(kind, file, optMode, noParse, transform, inPlace, regionMarkerFormatter) ==
    /\ proc = "running"
    /\ NumCalls < MaxCalls
    /\ LET c == NumCalls + 1
           r == [IdleCall EXCEPT !.kind = kind, !.file = file, !.optMode = optMode,
                                 !.noParse = noParse, !.transform = transform,
                                 !.inPlace = inPlace,
                                 !.formatter = regionMarkerFormatter,
                                 !.promise = "pending"]
           k == modelBuilderPromise
       IN IF HasModelBuilder
          THEN \* getModelFromModelBuilder
               /\ IF Truthy(modelBuilderResult)
                  THEN /\ calls' = [calls EXCEPT ![c] =
                              [Resolve(r, ApplyTransform(modelBuilderResult, transform))
                                  EXCEPT !.pc = "queued"]]
                       /\ micro' = Append(micro, c)
                       /\ modelBuilderResult' = Transformed(modelBuilderResult, r)
                  ELSE IF builds[k].pc = "pending"
                       THEN /\ calls' = [calls EXCEPT ![c] = [r EXCEPT !.pc = "awaitBuilder",
                                                                       !.chain = k]]
                            /\ micro' = micro
                            /\ modelBuilderResult' = modelBuilderResult
                       ELSE /\ calls' = [calls EXCEPT ![c] =
                                   [Resolve(r, ApplyTransform(builds[k].value, transform))
                                       EXCEPT !.pc = "queued", !.chain = k]]
                            /\ micro' = Append(micro, c)
                            /\ modelBuilderResult' = modelBuilderResult
               /\ UNCHANGED <<listeners, hostPending, sent>>
          ELSE \* the listener is attached in the promise executor, then getModel is sent
               /\ calls' = [calls EXCEPT ![c] =
                              Note([r EXCEPT !.pc = "awaitModel"], <<"listen", "getModel">>)]
               /\ listeners' = AttachListener(listeners, c)
               /\ sent' = Append(sent, "getModel")
               /\ hostPending' = hostPending + 1
               /\ micro' = micro
               /\ modelBuilderResult' = modelBuilderResult
    /\ UNCHANGED <<writer, args, proc, sessionVars, modelBuilderPromise, builds, fs, dirs>>

\* the reaction of a promise that was already resolved when the script attached to it:
\* the then-callback of generateFromModel runs generateInternal
RunReaction ==
    /\ proc = "running"
    /\ micro # <<>>
    /\ LET S == GenerateInternal(Here, Head(micro))
       IN /\ calls' = S.calls
          /\ sent' = S.sent
          /\ dirs' = S.dirs
    /\ micro' = Tail(micro)
    /\ UNCHANGED <<writer, args, proc, sessionVars, builderVars, listeners, hostPending, fs>>

\* the host's setModel message arrives: every attached listener runs on it, then the
\* reactions of the promises it settled: generateInternal for the resolved ones (then),
\* console.log for the rejected ones (catch)
DeliverSetModel(d) ==
    /\ proc = "running"
    /\ micro = <<>>
    /\ hostPending > 0
    /\ LET heard == {listeners[i] : i \in 1..Len(listeners)}
           c1 == [c \in CallIds |-> IF c \in heard THEN Listener(calls[c], d) ELSE calls[c]]
           resolved == SelectSeq(listeners, LAMBDA c : calls[c].promise = "pending"
                                                        /\ c1[c].promise = "resolved")
           c2 == [c \in CallIds |->
                     IF calls[c].promise = "pending" /\ c1[c].promise = "rejected"
                     THEN Note([c1[c] EXCEPT !.pc = "modelRejected"], <<"console.log">>)
                     ELSE c1[c]]
           S == GenerateAll([calls |-> c2, sent |-> sent, dirs |-> dirs], resolved)
       IN /\ calls' = S.calls
          /\ sent' = S.sent
          /\ dirs' = S.dirs
    /\ hostPending' = hostPending - 1
    /\ UNCHANGED <<writer, args, proc, sessionVars, builderVars, listeners, micro, fs>>

(* ------------------------------------------------------------------ *)
(* StreamWriter: values and construction                               *)
(* ------------------------------------------------------------------ *)
\* Strings are sequences of characters.
DefaultIndentString == <<"\t">>
IndentUnits == {DefaultIndentString, <<" ", " ">>}   \* values of indentString
EndOfLines == {<<"\n">>, <<"\r", "\n">>}             \* values of os.EOL
LineValues == {<<>>, <<"x">>}                        \* "" and a line with content
Delimiters == {None, Some(<<",">>)}

\* the values arrays writeLines is called with (None: no array)
LinesValues ==
    {None, Some(<<>>), Some(<<Some(<<"x">>)>>), Some(<<Some(<<"x">>), Some(<<>>)>>),
     Some(<<None, Some(<<"x">>)>>)}

\* '' + value: string concatenation spells a null out
Text(v) == IF v = None THEN <<"n", "u", "l", "l">> ELSE v[1]

\* the state before a call, kept for the properties
NoBefore ==
    [loc |-> 0, sloc |-> 0, indent |-> 0, countSloc |-> TRUE, pure |-> TRUE, left |-> FALSE]

\* the frozen scopes of a template: held after freezeSloc() until unfreezeSloc(); thawed when
\* unfreezeSloc() was called inside the withFrozenSloc blocks that are running
NoScope == [held |-> FALSE, thawed |-> FALSE]

\* the formatters a call's options can carry: DashFormatter fences a region between two lines
\* "--name", the same marker at its start and at its end
DefaultRegionMarkerFormatter == "DefaultRegionMarkerFormatter"
DashFormatter == "DashFormatter"
Formatters == {DefaultRegionMarkerFormatter, DashFormatter}

\* nothing known about the latest call's file access
NoIo == [regionName |-> None, path |-> None, result |-> None, accessed |-> FALSE]

\* textFileCache = {}
EmptyCache == [p \in {} |-> None]

\* new StreamWriter(stream, regionMarkerFormatter), on a platform with line terminator eol
NewStreamWriter(eol, regionMarkerFormatter) ==
    [indent |-> 0,
     textFileCache |-> EmptyCache,
     fileRegionMapper |-> IF regionMarkerFormatter = None
                          THEN DefaultRegionMarkerFormatter
                          ELSE regionMarkerFormatter[1],
     endOfLineString |-> eol,
     indentString |-> DefaultIndentString,
     loc |-> 0,
     sloc |-> 0,
     countSloc |-> TRUE,
     noIndent |-> FALSE,
     noEndOfLine |-> FALSE,
     chunk |-> <<>>,         \* what the latest call wrote to the stream
     depth |-> 0,            \* withFrozenSloc blocks that are running
     \* history, for the properties
     op |-> "new",           \* the latest call
     arg |-> <<>>,           \* its value arguments
     ops |-> 0,              \* calls made so far
     before |-> NoBefore,    \* counters and level before the latest call
     pure |-> TRUE,          \* only increaseIndent / decreaseIndent were called so far
     hist |-> <<>>,          \* those calls, in order
     mark |-> None,          \* counters at the freezeSloc whose scope holds only writeLine calls
     scope |-> NoScope,      \* the frozen scopes the template has opened
     io |-> NoIo,            \* the latest call's file arguments, return value and file access
     first |-> EmptyCache]   \* what the first writeFileRegion of each path and region did

(* ------------------------------------------------------------------ *)
(* The write stream and the template callback                           *)
(* ------------------------------------------------------------------ *)
\* what the template does when the callback is invoked
SyncOutcomes == {"returns", "throws"}
AsyncOutcomes == {"pending", "throws"}
SettleOutcomes == {"resolves", "rejects"}

\* the template writes text through the StreamWriter of call record r
TemplateWrites(r, text) == [r EXCEPT !.out = @ \o text, !.pos = @ + Len(text)]

\* mutant: generateFinished is sent before the stream is ended
FinishBeforeEnd(r) ==
    Note([r EXCEPT !.pc = "done", !.stream = "ended"],
         <<"resolved", "generateFinished", "streamEnd">>)

\* mutant: generateFinished is sent before and after the stream is ended
FinishTwice(r) ==
    Note([r EXCEPT !.pc = "done", !.stream = "ended"],
         <<"resolved", "generateFinished", "streamEnd", "generateFinished">>)

\* the then-reaction of callback(cw): writeStream.end(), then generateFinished
Finish(r) ==
    Note([r EXCEPT !.pc = "done", !.stream = "ended"],
         <<"resolved", "streamEnd", "generateFinished">>)

\* mutant: the writer is created and the callback invoked without waiting for 'open'
OpenFailedCallsBack(r) ==
    Note([r EXCEPT !.pc = "openFailed", !.stream = "none"], <<"callback", "openError">>)

\* the stream of call record r could not open its file: 'error' instead of 'open', so
\* the 'open' handler never runs
OpenFailed(r) ==
    Note([r EXCEPT !.pc = "openFailed", !.stream = "none"], <<"openError">>)

\* mutant: the writer is created without the formatter of the options
OpenHandlerWriterDefault(r) == NewStreamWriter(<<"\n">>, None)

\* var cw = new StreamWriter(writeStream, options.regionMarkerFormatter)
OpenHandlerWriter(r) == NewStreamWriter(<<"\n">>, r.formatter)

\* the stream of call c opens its file (or fails to): the 'open' handler creates the
\* StreamWriter and invokes the callback; the template writes text
StreamOpen(c, ok, text, outcome) ==
    /\ proc = "running"
    /\ micro = <<>>
    /\ calls[c].pc = "opening"
    /\ outcome \in IF calls[c].kind \in AsyncKinds THEN AsyncOutcomes ELSE SyncOutcomes
    /\ IF ~ok
       THEN \* 'error' is emitted and nothing listens for it: the process ends
            /\ calls' = [calls EXCEPT ![c] = OpenFailed(@)]
            /\ proc' = "crashed"
            /\ UNCHANGED <<fs, sent>>
       ELSE LET r0 == calls[c]
                r == Note(TemplateWrites([r0 EXCEPT !.stream = "open",
                                                    !.cw = Some(OpenHandlerWriter(r0))], text),
                          <<"open", "callback">>)
            IN /\ fs' = [fs EXCEPT ![r0.file] =
                            WriteFile(OpenFile(@, r0.flags), r0.flags, r0.pos, text)]
               /\ CASE outcome = "throws" ->
                         /\ calls' = [calls EXCEPT ![c] = [r EXCEPT !.pc = "threw"]]
                         /\ sent' = sent
                         /\ proc' = "crashed"
                    [] outcome = "pending" ->
                         /\ calls' = [calls EXCEPT ![c] = [r EXCEPT !.pc = "running"]]
                         /\ sent' = sent
                         /\ proc' = proc
                    [] outcome = "returns" ->
                         /\ calls' = [calls EXCEPT ![c] = Finish(r)]
                         /\ sent' = Append(sent, "generateFinished")
                         /\ proc' = proc
    /\ UNCHANGED <<writer, args, sessionVars, builderVars, listeners, micro, hostPending, dirs>>

\* the promise an asynchronous template returned settles, after the template wrote text
TemplateSettle(c, text, outcome, fatal) ==
    /\ proc = "running"
    /\ micro = <<>>
    /\ calls[c].pc = "running"
    /\ LET r0 == calls[c]
           r == TemplateWrites(r0, text)
       IN /\ fs' = [fs EXCEPT ![r0.file] =
                       WriteFile(IF @ = Absent THEN <<>> ELSE @, r0.flags, r0.pos, text)]
          /\ IF outcome = "resolves"
             THEN /\ ~fatal
                  /\ calls' = [calls EXCEPT ![c] = Finish(r)]
                  /\ sent' = Append(sent, "generateFinished")
                  /\ proc' = proc
             ELSE \* no reaction handles the rejection: a warning, or the end of the process
                  /\ calls' = [calls EXCEPT ![c] =
                                 Note([r EXCEPT !.pc = "rejected"], <<"unhandledRejection">>)]
                  /\ sent' = sent
                  /\ proc' = IF fatal THEN "crashed" ELSE proc
    /\ UNCHANGED <<writer, args, sessionVars, builderVars, listeners, micro, hostPending, dirs>>

\* mutant: buildModel only logs that it starts
BuildStartMessagesLogOnly == <<"log">>

\* what buildModel sends before it calls the builder: the log message, then generateStarted
BuildStartMessages == <<"log", "generateStarted">>

\* buildModel(builder), called by the template script
BuildModel(throws, fatal) ==
    /\ proc = "running"
    /\ NumBuilds < MaxBuilds
    /\ LET k == NumBuilds + 1
       IN /\ sent' = sent \o BuildStartMessages
          /\ modelBuilderResult' = Null
          /\ IF throws
             THEN \* builder() throws: the exception leaves buildModel
                  /\ builds' = [builds EXCEPT ![k] =
                                   Note([@ EXCEPT !.pc = "threw"],
                                        BuildStartMessages \o <<"builder">>)]
                  /\ modelBuilderPromise' = modelBuilderPromise
                  /\ proc' = IF fatal THEN "crashed" ELSE proc
             ELSE /\ ~fatal
                  /\ builds' = [builds EXCEPT ![k] =
                                   Note([@ EXCEPT !.pc = "pending", !.promise = "pending"],
                                        BuildStartMessages \o <<"builder">>)]
                  /\ modelBuilderPromise' = k
                  /\ proc' = proc
    /\ UNCHANGED <<writer, args, sessionVars, calls, listeners, micro, hostPending, fs, dirs>>

\* mutant: the host is told that the build finished before the result is stored
BuilderResolvedFinishFirst(b, v) ==
    Note([b EXCEPT !.pc = "resolved", !.value = v, !.promise = "resolved", !.settled = v],
         <<"generateFinished", "cached", "log", "resolved">>)

\* the then-reaction of builder(): store the result, log, resolve the returned promise,
\* send generateFinished, and pass the result on
BuilderResolved(b, v) ==
    Note([b EXCEPT !.pc = "resolved", !.value = v, !.promise = "resolved", !.settled = v],
         <<"cached", "log", "resolved", "generateFinished">>)

\* mutant: the reason is logged and the returned promise resolves without a value
BuilderRejectedSwallowed(b, e) ==
    Note([b EXCEPT !.pc = "failed", !.value = Undefined, !.promise = "resolved",
                   !.settled = Undefined, !.error = e],
         <<"log", "resolved">>)

\* the catch-reaction: reject the returned promise with the builder's reason; the chain
\* itself (modelBuilderPromise) resolves with undefined
BuilderRejected(b, e) ==
    Note([b EXCEPT !.pc = "failed", !.value = Undefined, !.promise = "rejected",
                   !.settled = e, !.error = e],
         <<"rejected">>)

\* the promise of builder k settles, with value v or for reason v: the reactions of
\* buildModel, then those of the getModel calls chained on modelBuilderPromise
BuilderSettle(k, v, rejects, fatal) ==
    /\ proc = "running"
    /\ micro = <<>>
    /\ builds[k].pc = "pending"
    /\ IF rejects THEN v \in Errors ELSE v \in BuiltModels /\ ~fatal
    /\ LET m == IF rejects THEN Undefined ELSE v
           chained == SeqOfSet({c \in CallIds : calls[c].pc = "awaitBuilder" /\ calls[c].chain = k})
           c1 == [c \in CallIds |->
                     IF calls[c].pc = "awaitBuilder" /\ calls[c].chain = k
                     THEN Resolve(calls[c],
                                  ApplyTransform(TransformedBy(m, chained, Pos(chained, c) - 1),
                                                 calls[c].transform))
                     ELSE calls[c]]
           s1 == IF rejects THEN sent ELSE sent \o <<"log", "generateFinished">>
           S == GenerateAll([calls |-> c1, sent |-> s1, dirs |-> dirs], chained)
       IN /\ calls' = S.calls
          /\ sent' = S.sent
          /\ dirs' = S.dirs
          /\ builds' = [builds EXCEPT ![k] =
                           IF rejects THEN BuilderRejected(@, v) ELSE BuilderResolved(@, v)]
          /\ modelBuilderResult' = IF rejects THEN modelBuilderResult
                                   ELSE TransformedBy(v, chained, Len(chained))
    \* the caller of buildModel may leave the rejection unhandled
    /\ proc' = IF fatal THEN "crashed" ELSE proc
    /\ UNCHANGED <<writer, args, sessionVars, modelBuilderPromise, listeners, micro, hostPending, fs>>

(* ------------------------------------------------------------------ *)
(* StreamWriter: the methods                                            *)
(* ------------------------------------------------------------------ *)
\* this.stream.write(text)
Emit(w, text) == [w EXCEPT !.chunk = @ \o text]

\* mutant: only the significant-line counter is kept
IncrementLocSlocOnly(w, hasContents) ==
    [w EXCEPT !.sloc = IF hasContents /\ w.countSloc THEN @ + 1 ELSE @]

\* mutant: the significant-line counter ignores the freeze
IncrementLocIgnoresFreeze(w, hasContents) ==
    [w EXCEPT !.loc = @ + 1, !.sloc = IF hasContents THEN @ + 1 ELSE @]

\* StreamWriter.incrementLoc
IncrementLoc(w, hasContents) ==
    [w EXCEPT !.loc = @ + 1, !.sloc = IF hasContents /\ w.countSloc THEN @ + 1 ELSE @]

RECURSIVE Rep(_, _)
\* n repetitions of the string unit
Rep(unit, n) == IF n <= 0 THEN <<>> ELSE unit \o Rep(unit, n - 1)

\* mutant: the loop runs once too often
CreateIndentStringOneMore(w) ==
    IF w.noIndent THEN <<>> ELSE Rep(w.indentString, w.indent + 1)

\* StreamWriter.createIndentString
CreateIndentString(w) ==
    IF w.noIndent THEN <<>> ELSE Rep(w.indentString, w.indent)

\* mutant: a line without a value is counted as a line with content
WriteLineBlankCounts(w, value) ==
    IF value # None
    THEN IncrementLoc(
             Emit(w, CreateIndentString(w) \o value[1]
                        \o (IF w.noEndOfLine THEN <<>> ELSE w.endOfLineString)), TRUE)
    ELSE IncrementLoc(IF ~w.noEndOfLine THEN Emit(w, w.endOfLineString) ELSE w, TRUE)

\* StreamWriter.writeLine
WriteLine(w, value) ==
    IF value # None
    THEN IncrementLoc(
             Emit(w, CreateIndentString(w) \o value[1]
                        \o (IF w.noEndOfLine THEN <<>> ELSE w.endOfLineString)), TRUE)
    ELSE IncrementLoc(IF ~w.noEndOfLine THEN Emit(w, w.endOfLineString) ELSE w, FALSE)

RECURSIVE WriteLinesFrom(_, _, _, _)
\* values.forEach of writeLines, from position index on
WriteLinesFrom(w, values, index, delimiter) ==
    IF index > Len(values) THEN w
    ELSE LET value == values[index]
             w1 == Emit(w, CreateIndentString(w) \o Text(value))
             w2 == IF delimiter # None /\ delimiter[1] # <<>> /\ index < Len(values)
                   THEN Emit(w1, delimiter[1]) ELSE w1
             w3 == IF ~w.noEndOfLine THEN Emit(w2, w.endOfLineString) ELSE w2
         IN WriteLinesFrom(IncrementLoc(w3, value # None), values, index + 1, delimiter)

\* StreamWriter.writeLines
WriteLines(w, values, delimiter) ==
    IF values = None THEN w ELSE WriteLinesFrom(w, values[1], 1, delimiter)

\* mutant: the temporary indent is kept
WriteLineIndentedKeepsIndent(w, value) ==
    LET indentString == IF w.noIndent THEN <<>> ELSE w.indentString \o CreateIndentString(w)
    IN IncrementLoc(
           Emit([w EXCEPT !.indent = @ + 1],
                indentString \o Text(value)
                    \o (IF w.noEndOfLine THEN <<>> ELSE w.endOfLineString)), TRUE)

\* StreamWriter.writeLineIndented
WriteLineIndented(w, value) ==
    LET indentString == IF w.noIndent THEN <<>> ELSE w.indentString \o CreateIndentString(w)
    IN IncrementLoc(
           Emit(w, indentString \o Text(value)
                      \o (IF w.noEndOfLine THEN <<>> ELSE w.endOfLineString)), TRUE)

\* StreamWriter.writeEndOfLine
WriteEndOfLine(w, value) ==
    LET w1 == IF value # None /\ value[1] # <<>> THEN Emit(w, value[1]) ELSE w
        w2 == IF ~w.noEndOfLine THEN Emit(w1, w.endOfLineString) ELSE w1
    IN IncrementLoc(w2, TRUE)

\* StreamWriter.writeIndent
WriteIndent(w) == IF ~w.noIndent THEN Emit(w, CreateIndentString(w)) ELSE w

\* mutant: write indents its value
WriteIndented(w, value) ==
    IF value = None THEN w ELSE Emit(w, CreateIndentString(w) \o value[1])

\* StreamWriter.write
Write(w, value) == IF value = None THEN w ELSE Emit(w, value[1])

\* StreamWriter.writeWhiteSpace
WriteWhiteSpace(w) == Write(w, Some(<<" ">>))

\* StreamWriter.increaseIndent
IncreaseIndent(w) == [w EXCEPT !.indent = @ + 1]

\* mutant: the level is decremented without a test
DecreaseIndentUnguarded(w) == [w EXCEPT !.indent = @ - 1]

\* StreamWriter.decreaseIndent
DecreaseIndent(w) == IF w.indent > 0 THEN [w EXCEPT !.indent = @ - 1] ELSE w

\* StreamWriter.clearIndent
ClearIndent(w) == [w EXCEPT !.indent = 0]

\* mutant: suppressIndent has no effect
SuppressIndentIgnored(w) == w

\* StreamWriter.suppressIndent / resumeIndent / suppressEndOfLine / resumeEndOfLine
SuppressIndent(w) == [w EXCEPT !.noIndent = TRUE]
ResumeIndent(w) == [w EXCEPT !.noIndent = FALSE]
SuppressEndOfLine(w) == [w EXCEPT !.noEndOfLine = TRUE]
ResumeEndOfLine(w) == [w EXCEPT !.noEndOfLine = FALSE]

\* StreamWriter.freezeSloc / unfreezeSloc
FreezeSloc(w) == [w EXCEPT !.countSloc = FALSE]
UnfreezeSloc(w) == [w EXCEPT !.countSloc = TRUE]

\* withFrozenSloc up to the call of contents, and from its return on
WithFrozenSlocBegin(w) == [w EXCEPT !.countSloc = FALSE]
WithFrozenSlocEnd(w) == [w EXCEPT !.countSloc = TRUE]

(* ------------------------------------------------------------------ *)
(* StreamWriter: embedding files and file regions                       *)
(* ------------------------------------------------------------------ *)
\* strings are sequences of characters; Bom is the character U+FEFF
Bom == "\\uFEFF"
Utf8 == <<"u", "t", "f", "-", "8">>
\* the encoding argument: absent, 'UTF-8' and the alias 'utf8'; all three decode a file alike
Encodings == {None, Some(<<"U", "T", "F", "-", "8">>), Some(<<"u", "t", "f", "8">>)}

\* String.prototype.toLowerCase, on the characters of the encoding names
ToLowerCase(s) ==
    [i \in DOMAIN s |->
        CASE s[i] = "U" -> "u" [] s[i] = "T" -> "t" [] s[i] = "F" -> "f" [] OTHER -> s[i]]

\* String.prototype.indexOf(sub, from): a 0-based index, or -1
IndexOf(s, sub, from) ==
    LET hits == {i \in from..(Len(s) - Len(sub)) : SubSeq(s, i + 1, i + Len(sub)) = sub}
    IN IF hits = {} THEN -1 ELSE CHOOSE i \in hits : \A j \in hits : i <= j

\* mutant: the character at the end index is part of the result
SubstringInclusive(s, a, b) ==
    LET Clamp(i) == IF i < 0 THEN 0 ELSE IF i > Len(s) THEN Len(s) ELSE i
        lo == IF Clamp(a) <= Clamp(b) THEN Clamp(a) ELSE Clamp(b)
        hi == IF Clamp(a) <= Clamp(b) THEN Clamp(b) ELSE Clamp(a)
    IN SubSeq(s, lo + 1, Clamp(hi + 1))

\* String.prototype.substring(a, b): both ends clamped to the string, swapped when a > b
Substring(s, a, b) ==
    LET Clamp(i) == IF i < 0 THEN 0 ELSE IF i > Len(s) THEN Len(s) ELSE i
        lo == IF Clamp(a) <= Clamp(b) THEN Clamp(a) ELSE Clamp(b)
        hi == IF Clamp(a) <= Clamp(b) THEN Clamp(b) ELSE Clamp(a)
    IN SubSeq(s, lo + 1, hi)

\* RegionMarkerFormatter.getRegionStartMarker
GetRegionStartMarker(formatter, regionName) ==
    IF formatter = DefaultRegionMarkerFormatter
    THEN <<"/", "/", "/", " ", "<">> \o regionName \o <<">">>
    ELSE <<"-", "-">> \o regionName

\* RegionMarkerFormatter.getRegionEndMarker
GetRegionEndMarker(formatter, regionName) ==
    IF formatter = DefaultRegionMarkerFormatter
    THEN <<"/", "/", "/", " ", "<", "/">> \o regionName \o <<">">>
    ELSE <<"-", "-">> \o regionName

\* StreamWriter.resolveFileName: the files of the model are named relative to the template directory
ResolveFileName(fileName) == fileName

\* fs.readFileSync(path, encoding)
ReadFileSync(files, path, encoding) == files[path]

\* this.textFileCache[path] = contents
Cached(w, path, contents) ==
    [w EXCEPT !.textFileCache =
        [p \in DOMAIN @ \cup {path} |-> IF p = path THEN contents ELSE @[p]]]

\* StreamWriter.readTextFile: the writer it leaves and the contents it returns (None: null or undefined)
ReadTextFile(w, files, path, useCache, encoding) ==
    IF useCache /\ path \in DOMAIN w.textFileCache
    THEN [w |-> w, contents |-> w.textFileCache[path]]
    ELSE LET w1 == [w EXCEPT !.io.accessed = TRUE]
         IN IF ~ExistsSync(files, path)
            THEN [w |-> IF useCache THEN Cached(w1, path, None) ELSE w1, contents |-> None]
            ELSE LET enc == IF encoding # None THEN ToLowerCase(encoding[1]) ELSE Utf8
                     raw == ReadFileSync(files, path, enc)
                     contents == IF enc = Utf8 /\ raw[1] = Bom THEN Tail(raw) ELSE raw
                 IN IF Len(raw) = 0
                    THEN [w |-> w1, contents |-> None]
                    ELSE [w |-> IF useCache THEN Cached(w1, path, Some(contents)) ELSE w1,
                          contents |-> Some(contents)]

\* mutant: writeFile goes through the cache
StreamWriterWriteFileCached(w, files, path, encoding) ==
    LET fullPath == ResolveFileName(path[1])
        read == ReadTextFile(w, files, fullPath, TRUE, encoding)
    IN IF read.contents = None \/ Len(read.contents[1]) <= 0
       THEN read.w
       ELSE Emit(read.w, read.contents[1])

\* StreamWriter.writeFile
StreamWriterWriteFile(w, files, path, encoding) ==
    LET fullPath == ResolveFileName(path[1])
        read == ReadTextFile(w, files, fullPath, FALSE, encoding)
    IN IF read.contents = None \/ Len(read.contents[1]) <= 0
       THEN read.w
       ELSE Emit(read.w, read.contents[1])

\* return value, kept with the writer
Returns(w, value) == [w EXCEPT !.io.result = Some(value)]

\* mutant: only null and undefined arguments are turned away
MissingArgumentNullOnly(regionName, path) == regionName = None \/ path = None

\* the guard of writeFileRegion: a region name or a path that is null, undefined or empty
MissingArgument(regionName, path) ==
    regionName = None \/ Len(regionName[1]) = 0 \/ path = None \/ path[1] = ""

\* StreamWriter.writeFileRegion
WriteFileRegion(w, files, regionName, path, encoding) ==
    IF MissingArgument(regionName, path)
    THEN Returns(w, FALSE)
    ELSE LET fullPath == ResolveFileName(path[1])
             read == ReadTextFile(w, files, fullPath, TRUE, encoding)
         IN IF read.contents = None \/ Len(read.contents[1]) <= 0
            THEN Returns(read.w, FALSE)
            ELSE LET contents == read.contents[1]
                     regionStartMarker == GetRegionStartMarker(w.fileRegionMapper, regionName[1])
                     regionStartIndex == IndexOf(contents, regionStartMarker, 0)
                     regionEndMarker == GetRegionEndMarker(w.fileRegionMapper, regionName[1])
                     regionEndIndex == IndexOf(contents, regionEndMarker, regionStartIndex)
                     region == Substring(contents, regionStartIndex + Len(regionStartMarker),
                                         regionEndIndex)
                 IN IF regionStartIndex < 0 THEN Returns(read.w, FALSE)
                    ELSE IF regionEndIndex < 0 THEN Returns(read.w, FALSE)
                    ELSE Returns(WriteEndOfLine(Emit(read.w, region), None), TRUE)

(* ------------------------------------------------------------------ *)
(* The calls a template makes on its StreamWriter                       *)
(* ------------------------------------------------------------------ *)
generatorVars == <<args, proc, outputMode, templateArgs, modelBuilderResult, modelBuilderPromise,
                   builds, calls, listeners, micro, hostPending, fs, dirs, sent>>

IndentSteps == {"increaseIndent", "decreaseIndent"}
LeaveOps == {"withFrozenSloc", "withFrozenSloc:return", "withFrozenSloc:throw"}

\* a template callback is running and holds the writer
WriterInUse ==
    /\ proc = "running"
    /\ \E c \in CallIds : calls[c].pc = "running"
    /\ writer.ops < MaxOps

\* the writer at the start of a call
Begin(w) == [w EXCEPT !.chunk = <<>>, !.io = NoIo]

\* the freezeSloc scope followed for the properties, after the call name(arg)
Marked(w0, w1, name, arg) ==
    CASE name = "freezeSloc" ->
            Some([loc |-> w1.loc, sloc |-> w1.sloc, n |-> 0, closed |-> FALSE])
      [] name = "writeLine" /\ w0.mark # None /\ ~w0.mark[1].closed
            /\ arg[1] # None /\ arg[1][1] # <<>> ->
            Some([w0.mark[1] EXCEPT !.n = @ + 1])
      [] name = "unfreezeSloc" /\ w0.mark # None /\ ~w0.mark[1].closed ->
            Some([w0.mark[1] EXCEPT !.closed = TRUE])
      [] OTHER -> None

\* the frozen scopes after the call name, made with w0.depth blocks running
Scoped(w0, name) ==
    CASE name = "freezeSloc" -> [w0.scope EXCEPT !.held = TRUE]
      [] name = "unfreezeSloc" -> [held |-> FALSE, thawed |-> w0.depth > 0]
      [] name = "withFrozenSloc:enter" /\ w0.depth = 0 -> [w0.scope EXCEPT !.thawed = FALSE]
      [] OTHER -> w0.scope

\* writer w1, the result of the call name(arg) on writer w0, with the history brought up to date
Called(w0, w1, name, arg) ==
    [w1 EXCEPT !.op = name,
               !.arg = arg,
               !.ops = w0.ops + 1,
               !.before = [loc |-> w0.loc, sloc |-> w0.sloc, indent |-> w0.indent,
                           countSloc |-> w0.countSloc, pure |-> w0.pure,
                           left |-> w0.op \in LeaveOps],
               !.pure = w0.pure /\ name \in IndentSteps,
               !.hist = IF w0.pure
                        THEN IF name \in IndentSteps THEN Append(w0.hist, name) ELSE w0.hist
                        ELSE <<>>,
               !.mark = Marked(w0, w1, name, arg),
               !.scope = Scoped(w0, name)]

\* the template calls a method: w1 is the writer the method leaves
TemplateCalls(w1, name, arg) ==
    /\ WriterInUse
    /\ writer' = Called(writer, w1, name, arg)
    /\ UNCHANGED generatorVars

\* writer.indentString = unit, before the template writes anything
SetIndentString(unit) ==
    /\ proc = "running"
    /\ writer.ops = 0
    /\ writer.indentString # unit
    /\ writer' = [writer EXCEPT !.indentString = unit]
    /\ UNCHANGED generatorVars

CallWriteLine(value) ==
    TemplateCalls(WriteLine(Begin(writer), value), "writeLine", <<value>>)
CallWriteLines(values, delimiter) ==
    TemplateCalls(WriteLines(Begin(writer), values, delimiter), "writeLines",
                  IF values = None THEN <<>> ELSE values[1])
CallWriteLineIndented(value) ==
    TemplateCalls(WriteLineIndented(Begin(writer), value), "writeLineIndented", <<value>>)
CallWriteEndOfLine(value) ==
    TemplateCalls(WriteEndOfLine(Begin(writer), value), "writeEndOfLine", <<value>>)
CallWriteIndent == TemplateCalls(WriteIndent(Begin(writer)), "writeIndent", <<>>)
CallWrite(value) == TemplateCalls(Write(Begin(writer), value), "write", <<value>>)
CallWriteWhiteSpace == TemplateCalls(WriteWhiteSpace(Begin(writer)), "writeWhiteSpace", <<>>)
\* the latest call's file arguments, and what the first call for a path and region did
Noted(w1, regionName, path) ==
    LET key == <<path, regionName>>
        seen == [result |-> w1.io.result[1], chunk |-> w1.chunk, noEndOfLine |-> w1.noEndOfLine]
        valid == regionName # None /\ regionName # Some(<<>>) /\ path # None /\ path # Some("")
    IN [w1 EXCEPT !.io.regionName = regionName,
                  !.io.path = path,
                  !.first = IF valid /\ key \notin DOMAIN @
                            THEN [k \in DOMAIN @ \cup {key} |-> IF k = key THEN seen ELSE @[k]]
                            ELSE @]

CallWriteFile(path, encoding) ==
    TemplateCalls([StreamWriterWriteFile(Begin(writer), fs, path, encoding)
                       EXCEPT !.io.path = path],
                  "writeFile", <<>>)
CallWriteFileRegion(regionName, path, encoding) ==
    TemplateCalls(Noted(WriteFileRegion(Begin(writer), fs, regionName, path, encoding),
                        regionName, path),
                  "writeFileRegion", <<>>)

\* a file the template embeds is created, rewritten or deleted while the template runs
FileChanges(path, contents) ==
    /\ proc = "running"
    /\ fs[path] # contents
    /\ fs' = [fs EXCEPT ![path] = contents]
    /\ UNCHANGED <<args, proc, outputMode, templateArgs, modelBuilderResult, modelBuilderPromise,
                   builds, calls, listeners, micro, hostPending, dirs, sent, writer>>
\* the writer of call c
Cw(c) == calls[c].cw[1]

\* the template of call c calls a method of its own writer: w1 is the writer the method leaves,
\* and what the method wrote goes to the stream of the call
TemplateCallsOn(c, w1, name, arg) ==
    /\ proc = "running"
    /\ micro = <<>>
    /\ calls[c].pc = "running"
    /\ Cw(c).ops < MaxFileOps
    /\ LET r0 == calls[c]
           w == Called(Cw(c), w1, name, arg)
       IN /\ calls' = [calls EXCEPT ![c] = TemplateWrites([r0 EXCEPT !.cw = Some(w)], w.chunk)]
          /\ fs' = [fs EXCEPT ![r0.file] =
                       WriteFile(IF @ = Absent THEN <<>> ELSE @, r0.flags, r0.pos, w.chunk)]
    /\ UNCHANGED <<writer, args, proc, sessionVars, builderVars, listeners, micro, hostPending,
                   dirs, sent>>

CallOnWriteLine(c, value) ==
    TemplateCallsOn(c, WriteLine(Begin(Cw(c)), value), "writeLine", <<value>>)
CallOnIncreaseIndent(c) ==
    TemplateCallsOn(c, IncreaseIndent(Begin(Cw(c))), "increaseIndent", <<>>)
CallOnWriteFileRegion(c, regionName, path) ==
    TemplateCallsOn(c, Noted(WriteFileRegion(Begin(Cw(c)), fs, regionName, path, None),
                             regionName, path),
                    "writeFileRegion", <<>>)

CallIncreaseIndent == TemplateCalls(IncreaseIndent(Begin(writer)), "increaseIndent", <<>>)
CallDecreaseIndent == TemplateCalls(DecreaseIndent(Begin(writer)), "decreaseIndent", <<>>)
CallClearIndent == TemplateCalls(ClearIndent(Begin(writer)), "clearIndent", <<>>)
CallSuppressIndent == TemplateCalls(SuppressIndent(Begin(writer)), "suppressIndent", <<>>)
CallResumeIndent == TemplateCalls(ResumeIndent(Begin(writer)), "resumeIndent", <<>>)
CallSuppressEndOfLine == TemplateCalls(SuppressEndOfLine(Begin(writer)), "suppressEndOfLine", <<>>)
CallResumeEndOfLine == TemplateCalls(ResumeEndOfLine(Begin(writer)), "resumeEndOfLine", <<>>)
CallFreezeSloc == TemplateCalls(FreezeSloc(Begin(writer)), "freezeSloc", <<>>)
CallUnfreezeSloc == TemplateCalls(UnfreezeSloc(Begin(writer)), "unfreezeSloc", <<>>)

\* withFrozenSloc() without contents: nothing runs between the two assignments
CallWithFrozenSlocNoContents ==
    TemplateCalls(WithFrozenSlocEnd(WithFrozenSlocBegin(Begin(writer))), "withFrozenSloc", <<>>)

\* withFrozenSloc(contents): counting is switched off and contents(this) is entered
EnterWithFrozenSloc ==
    /\ writer.depth < MaxDepth
    /\ TemplateCalls([WithFrozenSlocBegin(Begin(writer)) EXCEPT !.depth = @ + 1],
                     "withFrozenSloc:enter", <<>>)

\* contents(this) returns: counting is switched on again
ReturnFromWithFrozenSloc ==
    /\ writer.depth > 0
    /\ TemplateCalls([WithFrozenSlocEnd(Begin(writer)) EXCEPT !.depth = @ - 1],
                     "withFrozenSloc:return", <<>>)

\* contents(this) throws: the exception leaves n nested withFrozenSloc calls before the
\* template catches it, and none of them reaches its last assignment
ThrowFromWithFrozenSloc(n) ==
    /\ n \in 1..writer.depth
    /\ TemplateCalls([Begin(writer) EXCEPT !.depth = @ - n], "withFrozenSloc:throw", <<>>)

(* ------------------------------------------------------------------ *)
(* Specifications                                                       *)
(* ------------------------------------------------------------------ *)
RECURSIVE SeqsUpTo(_, _)
\* the sequences over S of length at most n
SeqsUpTo(S, n) ==
    IF n = 0 THEN {<<>>}
    ELSE LET shorter == SeqsUpTo(S, n - 1)
         IN shorter \cup {Append(q, x) : q \in {t \in shorter : Len(t) = n - 1}, x \in S}

\* the argument vectors the session protocol is explored with
ProtocolArgs == {<<>>, <<"--outputMode", "once">>, <<"--outputMode", "append">>}

InitWith(argvs) ==
    /\ writer = NewStreamWriter(<<"\n">>, None)
    /\ args \in argvs
    /\ proc = "boot"
    /\ outputMode = OverwriteMode
    /\ templateArgs = Undefined
    /\ modelBuilderResult = Null
    /\ modelBuilderPromise = 0
    /\ builds = [k \in BuildIds |-> IdleBuild]
    /\ calls = [c \in CallIds |-> IdleCall]
    /\ listeners = <<>>
    /\ micro = <<>>
    /\ hostPending = 0
    /\ fs = [p \in Paths |-> IF p = "a" THEN <<"A">> ELSE Absent]
    /\ dirs = {"."}
    /\ sent = <<>>

Init == InitWith(ProtocolArgs)

\* the session with every kind of generate call, every output file and every mode;
\* the host answers with no model or with plain JSON
HostData == {Null, Json}

Next ==
    \/ Constructor
    \/ \E kind \in NoModelKinds, file \in Paths, optMode \in Option(OutputModes) :
          Generate(kind, file, optMode, None)
    \/ \E kind \in FromModelKinds, file \in Paths, optMode \in Option(OutputModes) :
          GenerateFromModel(kind, file, optMode, FALSE, FALSE, FALSE, None)
    \/ \E d \in HostData : DeliverSetModel(d)
    \/ \E c \in CallIds, ok \in BOOLEAN, text \in Texts, outcome \in SyncOutcomes \cup AsyncOutcomes :
          StreamOpen(c, ok, text, outcome)
    \/ \E c \in CallIds, text \in Texts, outcome \in SettleOutcomes, fatal \in BOOLEAN :
          TemplateSettle(c, text, outcome, fatal)

Spec == Init /\ [][Next]_vars

\* the session with calls that take their model from the host: every answer of the
\* host, every model option
ModelTexts == {<<"B">>}
InitModel == InitWith({<<>>})

NextModel ==
    \/ Constructor
    \/ \E kind \in FromModelKinds, noParse \in BOOLEAN, transform \in BOOLEAN :
          GenerateFromModel(kind, "out/b", None, noParse, transform, FALSE, None)
    \/ \E d \in ModelData : DeliverSetModel(d)
    \/ \E c \in CallIds, ok \in BOOLEAN, text \in ModelTexts, outcome \in SyncOutcomes \cup AsyncOutcomes :
          StreamOpen(c, ok, text, outcome)
    \/ \E c \in CallIds, text \in ModelTexts, outcome \in SettleOutcomes, fatal \in BOOLEAN :
          TemplateSettle(c, text, outcome, fatal)

SpecModel == InitModel /\ [][NextModel]_vars

\* the session with buildModel and calls that take their model from it or from the host
BuildData == {Null, Json}

NextBuild ==
    \/ Constructor
    \/ \E throws \in BOOLEAN, fatal \in BOOLEAN : BuildModel(throws, fatal)
    \/ \E k \in BuildIds, v \in BuiltModels \cup Errors, rejects \in BOOLEAN, fatal \in BOOLEAN :
          BuilderSettle(k, v, rejects, fatal)
    \/ \E kind \in FromModelKinds, transform \in BOOLEAN :
          GenerateFromModel(kind, "out/b", None, FALSE, transform, FALSE, None)
    \/ RunReaction
    \/ \E d \in BuildData : DeliverSetModel(d)
    \/ \E c \in CallIds, ok \in BOOLEAN, text \in ModelTexts, outcome \in SyncOutcomes \cup AsyncOutcomes :
          StreamOpen(c, ok, text, outcome)
    \/ \E c \in CallIds, text \in ModelTexts, outcome \in SettleOutcomes, fatal \in BOOLEAN :
          TemplateSettle(c, text, outcome, fatal)

SpecBuild == InitModel /\ [][NextBuild]_vars

\* buildModel and the calls that take their model from it through a renaming transform
NextTransform ==
    \/ Constructor
    \/ BuildModel(FALSE, FALSE)
    \/ \E k \in BuildIds, v \in BuiltModels : BuilderSettle(k, v, FALSE, FALSE)
    \/ \E transform \in BOOLEAN, f \in Option(Formatters) :
          GenerateFromModel("generateFromModelAsync", "out/b", None, FALSE, transform, transform, f)
    \/ RunReaction
    \/ \E c \in CallIds, text \in ModelTexts : StreamOpen(c, TRUE, text, "pending")
    \/ \E c \in CallIds, text \in ModelTexts, outcome \in SettleOutcomes :
          TemplateSettle(c, text, outcome, FALSE)

SpecTransform == InitModel /\ [][NextTransform]_vars

\* a StreamWriter in the hands of an asynchronous template: the session after startup,
\* generateAsync on out/b and the 'open' event of its stream
InitWriter ==
    /\ writer \in {NewStreamWriter(eol, None) : eol \in EndOfLines}
    /\ args = <<>>
    /\ proc = "running"
    /\ outputMode = OverwriteMode
    /\ templateArgs = Undefined
    /\ modelBuilderResult = Null
    /\ modelBuilderPromise = 0
    /\ builds = [k \in BuildIds |-> IdleBuild]
    /\ calls = [c \in CallIds |->
                  IF c = 1
                  THEN [IdleCall EXCEPT !.kind = "generateAsync", !.file = "out/b",
                                        !.pc = "running", !.mode = Some(OverwriteMode),
                                        !.stream = "open", !.flags = "w",
                                        !.cw = Some(writer),
                                        !.trace = <<"generateStarted", "open", "callback">>]
                  ELSE IdleCall]
    /\ listeners = <<>>
    /\ micro = <<>>
    /\ hostPending = 0
    /\ fs = [p \in Paths |-> IF p = "a" THEN <<"A">> ELSE <<>>]
    /\ dirs = {".", "out"}
    /\ sent = <<"processStarted", "generateStarted">>

NextWriter ==
    \/ \E unit \in IndentUnits : SetIndentString(unit)
    \/ \E value \in Option(LineValues) : CallWriteLine(value)
    \/ \E values \in LinesValues, delimiter \in Delimiters : CallWriteLines(values, delimiter)
    \/ \E value \in Option(LineValues) : CallWriteLineIndented(value)
    \/ \E value \in Option(LineValues) : CallWriteEndOfLine(value)
    \/ CallWriteIndent
    \/ \E value \in Option(LineValues) : CallWrite(value)
    \/ CallWriteWhiteSpace
    \/ CallWriteFile(Some("a"), None)
    \/ CallIncreaseIndent
    \/ CallDecreaseIndent
    \/ CallClearIndent
    \/ CallSuppressIndent
    \/ CallResumeIndent
    \/ CallSuppressEndOfLine
    \/ CallResumeEndOfLine
    \/ CallFreezeSloc
    \/ CallUnfreezeSloc
    \/ CallWithFrozenSlocNoContents
    \/ EnterWithFrozenSloc
    \/ ReturnFromWithFrozenSloc
    \/ \E n \in 1..MaxDepth : ThrowFromWithFrozenSloc(n)

SpecWriter == InitWriter /\ [][NextWriter]_vars

\* embedding files: one template callback runs with a fresh writer of any formatter, and the
\* file "a" it embeds holds any of FileContents, changing at any time
Foo == <<"f", "o", "o">>
Body == <<"\n", "B", "O", "D", "Y", "\n">>
FileContents ==
    {Absent, <<>>, <<Bom, "x">>}
      \cup UNION {{GetRegionStartMarker(f, Foo) \o Body \o GetRegionEndMarker(f, Foo),
                   GetRegionStartMarker(f, Foo) \o Body}
                  : f \in Formatters}
      \cup {GetRegionStartMarker(DefaultRegionMarkerFormatter, Foo) \o <<"N">>
                \o GetRegionEndMarker(DefaultRegionMarkerFormatter, Foo),
            GetRegionEndMarker(DefaultRegionMarkerFormatter, Foo)
                \o GetRegionStartMarker(DefaultRegionMarkerFormatter, Foo)}
RegionNames == {None, Some(<<>>), Some(Foo)}
PathArgs == {None, Some(""), Some("a"), Some("out/b")}

InitRegion ==
    /\ writer \in {NewStreamWriter(eol, f) : eol \in EndOfLines, f \in Option(Formatters)}
    /\ args = <<>>
    /\ proc = "running"
    /\ outputMode = OverwriteMode
    /\ templateArgs = Undefined
    /\ modelBuilderResult = Null
    /\ modelBuilderPromise = 0
    /\ builds = [k \in BuildIds |-> IdleBuild]
    /\ calls = [c \in CallIds |->
                  IF c = 1
                  THEN [IdleCall EXCEPT !.kind = "generateAsync", !.file = "out/b",
                                        !.pc = "running", !.mode = Some(OverwriteMode),
                                        !.stream = "open", !.flags = "w",
                                        !.cw = Some(writer),
                                        !.trace = <<"generateStarted", "open", "callback">>]
                  ELSE IdleCall]
    /\ listeners = <<>>
    /\ micro = <<>>
    /\ hostPending = 0
    /\ fs \in {[p \in Paths |-> IF p = "a" THEN contents ELSE <<>>] : contents \in FileContents}
    /\ dirs = {".", "out"}
    /\ sent = <<"processStarted", "generateStarted">>

NextRegion ==
    \/ /\ writer.ops < MaxFileOps
       /\ \/ \E regionName \in RegionNames, path \in PathArgs, encoding \in Encodings :
                CallWriteFileRegion(regionName, path, encoding)
          \/ \E path \in {Some(p) : p \in Paths}, encoding \in Encodings :
                CallWriteFile(path, encoding)
          \/ CallIncreaseIndent
          \/ CallSuppressEndOfLine
          \/ CallResumeEndOfLine
    \/ \E contents \in FileContents : FileChanges("a", contents)

SpecRegion == InitRegion /\ [][NextRegion]_vars

\* two asynchronous templates at once: each call brings the formatter of its options, each
\* template works on the writer it was handed, and the file "a" they embed changes meanwhile
RegionFiles ==
    {GetRegionStartMarker(f, Foo) \o Body \o GetRegionEndMarker(f, Foo) : f \in Formatters}
InitWriters == InitWith({<<>>})

NextWriters ==
    \/ Constructor
    \/ \E f \in Option(Formatters) : Generate("generateAsync", "out/b", None, f)
    \/ \E c \in CallIds : StreamOpen(c, TRUE, <<>>, "pending")
    \/ \E c \in CallIds : CallOnIncreaseIndent(c)
    \/ \E c \in CallIds : CallOnWriteLine(c, Some(<<"x">>))
    \/ \E c \in CallIds : CallOnWriteFileRegion(c, Some(Foo), Some("a"))
    \/ \E contents \in RegionFiles : FileChanges("a", contents)

SpecWriters == InitWriters /\ [][NextWriters]_vars

\* startup alone, over every argument vector of at most MaxArgs tokens
InitArgs == InitWith(SeqsUpTo(Tokens, MaxArgs))
NextArgs == Constructor
SpecArgs == InitArgs /\ [][NextArgs]_vars

(* ------------------------------------------------------------------ *)
(* Properties                                                           *)
(* ------------------------------------------------------------------ *)
Before(q, x, y) == 0 < Pos(q, x) /\ Pos(q, x) < Pos(q, y)

\* the mode the claims expect call record r to run with
ExpectedMode(r) == IF r.optMode # None THEN r.optMode[1] ELSE outputMode

\* the outcome of the template or of the builder is known
CallSettled(r) == r.pc \in {"done", "skipped", "rejected"}
BuildSettled(b) == b.pc \in {"resolved", "failed", "threw"}

\* C1: every generateStarted is followed by exactly one generateFinished, whatever the
\* outcome of the template callback or of the model builder: once the outcome is known
\* and the worker is still running, the call has sent as many generateFinished as
\* generateStarted.
C1_StartedThenFinished ==
    proc = "running" =>
       /\ \A c \in CallIds :
             CallSettled(calls[c]) =>
                Count(calls[c].trace, "generateFinished") = Count(calls[c].trace, "generateStarted")
       /\ \A k \in BuildIds :
             BuildSettled(builds[k]) =>
                Count(builds[k].trace, "generateFinished") = Count(builds[k].trace, "generateStarted")

\* a call is made in this step, with effective mode Once, while its file exists
OnceOnExisting(c) ==
    /\ calls[c].mode = None
    /\ calls'[c].mode # None
    /\ ExpectedMode(calls'[c]) = OnceMode
    /\ fs[calls'[c].file] # Absent

\* C2: a call with effective mode Once whose file exists sends generateStarted and then
\* generateFinished, never invokes the callback, never opens the file, and leaves the
\* file's content unchanged.
C2_OnceSkipsExisting ==
    /\ [][\A c \in CallIds :
             OnceOnExisting(c) =>
                /\ fs' = fs
                /\ calls'[c].pc = "skipped"
                /\ Count(sent', "generateStarted") > Count(sent, "generateStarted")
                /\ Count(sent', "generateFinished") > Count(sent, "generateFinished")]_vars
    /\ [](\A c \in CallIds :
             (calls[c].mode # None /\ ExpectedMode(calls[c]) = OnceMode /\ calls[c].pre # Absent) =>
                /\ calls[c].pc = "skipped"
                /\ calls[c].stream = "none"
                /\ calls[c].out = <<>>
                /\ Count(calls[c].trace, "generateStarted") = 1
                /\ Count(calls[c].trace, "generateFinished") = 1
                /\ Pos(calls[c].trace, "generateFinished") = Pos(calls[c].trace, "generateStarted") + 1
                /\ Count(calls[c].trace, "callback") = 0
                /\ Count(calls[c].trace, "open") = 0)

C2_Witness ==
    \E c \in CallIds :
       /\ calls[c].pc = "skipped"
       /\ calls[c].optMode = None /\ outputMode = OnceMode
       /\ fs[calls[c].file] = <<"A">>

\* the content the claims expect in the file of call record r when its stream has ended
ExpectedContent(r) ==
    IF ExpectedMode(r) = AppendMode /\ r.pre # Absent THEN r.pre \o r.out ELSE r.out

C4_EffectiveMode ==
    \A c \in CallIds :
       calls[c].mode # None =>
          /\ calls[c].mode = Some(ExpectedMode(calls[c]))
          /\ (calls[c].pc = "skipped") <=> (ExpectedMode(calls[c]) = OnceMode /\ calls[c].existed)
          /\ calls[c].pc # "skipped" =>
                (calls[c].flags = "a") <=> (ExpectedMode(calls[c]) = AppendMode)

C4_Witness ==
    \E c \in CallIds :
       /\ outputMode = OnceMode
       /\ calls[c].optMode = Some(OverwriteMode)
       /\ calls[c].existed
       /\ calls[c].pc = "done" /\ calls[c].flags = "w"

RECURSIVE LastRecognized(_, _, _)
\* the default the claim expects after the flags of a from position index on, d so far
LastRecognized(a, index, d) ==
    IF index > Len(a) THEN d
    ELSE LastRecognized(a, index + 1,
             IF a[index] = "--outputMode" /\ index < Len(a)
             THEN CASE a[index + 1] = "append" -> AppendMode
                    [] a[index + 1] = "once" -> OnceMode
                    [] a[index + 1] = "overwrite" -> OverwriteMode
                    [] OTHER -> d
             ELSE d)

\* C5: after startup every --outputMode flag with the value append, once or overwrite has
\* set the default mode, so the last recognized flag decides it (Overwrite without one);
\* other flags leave it unchanged.
C5_LastRecognizedFlagWins ==
    proc = "running" => outputMode = LastRecognized(args, 1, OverwriteMode)

\* C6: processStarted is the first message sent and is sent exactly once, when the
\* construction completes, before any other message.
C6_ProcessStartedFirst ==
    /\ proc = "boot" => sent = <<>>
    /\ sent # <<>> => sent[1] = "processStarted"
    /\ proc = "running" => Count(sent, "processStarted") = 1
    /\ Count(sent, "processStarted") <= 1

C6_Witness ==
    /\ Len(sent) >= 4
    /\ sent[1] = "processStarted"
    /\ Count(sent, "getModel") > 0
    /\ Count(sent, "generateStarted") > 0
    /\ Count(sent, "generateFinished") > 0

\* the events of a call that opens its destination happen in the order of the sequence
InOrder(t, es) ==
    /\ \A i \in DOMAIN es : Count(t, es[i]) <= 1
    /\ \A i \in 2..Len(es) : Pos(t, es[i]) > 0 => Before(t, es[i - 1], es[i])

ExpectedModel(r, d) ==
    LET model == IF r.noParse \/ d = Json THEN d
                 ELSE IF d = Doc THEN DocModel ELSE Null
    IN IF r.transform /\ model # Null THEN Transform(model) ELSE model

\* C9: on the host path the promise of getModel rejects if and only if the modelData of
\* the setModel message is null; for every other modelData it resolves, with the raw
\* value when noParse is set or the data is no readable document, and with the
\* transformed model when a transform is given and the model is not null.
C9_RejectsIffNull ==
    \A c \in CallIds :
       calls[c].first # None =>
          /\ (calls[c].promise = "rejected") <=> (calls[c].first = Some(Null))
          /\ calls[c].first # Some(Null) =>
                /\ calls[c].promise = "resolved"
                /\ calls[c].model = ExpectedModel(calls[c], calls[c].first[1])

\* C10: the listener of a getModel call is one-shot: after the first setModel message it
\* handled, no later setModel message runs its parse / transform part again or changes
\* the result.
C10_ListenerIsOneShot ==
    \A c \in CallIds : calls[c].runs <= 1

\* call c is made in this step
NewCall(c) == calls[c].pc = "idle" /\ calls'[c].pc # "idle"

\* the value the claims expect getModel to resolve with from the built value v
ExpectedBuilt(v, transform) == IF transform /\ v # Null THEN Transform(v) ELSE v

\* call record r took the model builder's path: it never attached a listener
OnBuilderPath(r) == r.kind \in FromModelKinds /\ Count(r.trace, "listen") = 0

\* C11: exactly one resolution path runs per getModel call. When buildModel was called
\* before (its builder resolved or still in flight) the call sends no getModel message,
\* attaches no listener and resolves with the built value after the call's transform;
\* when buildModel was never called it attaches one listener, sends exactly one getModel
\* message and resolves from a setModel reply of the host.
C11_OneResolutionPath ==
    /\ [][\A c \in CallIds :
             (NewCall(c) /\ calls'[c].kind \in FromModelKinds) =>
                /\ (\E k \in BuildIds : builds[k].pc \in {"pending", "resolved"}) =>
                      /\ sent' = sent
                      /\ listeners' = listeners
                      /\ hostPending' = hostPending
                      /\ OnBuilderPath(calls'[c])
                /\ (\A k \in BuildIds : builds[k].pc = "idle") =>
                      /\ sent' = Append(sent, "getModel")
                      /\ listeners' = Append(listeners, c)
                      /\ ~OnBuilderPath(calls'[c])]_vars
    /\ [](\A c \in CallIds :
             calls[c].kind \in FromModelKinds =>
                IF OnBuilderPath(calls[c])
                THEN /\ Count(calls[c].trace, "getModel") = 0
                     /\ Count(calls[c].trace, "setModel") = 0
                     /\ \A i \in DOMAIN listeners : listeners[i] # c
                     /\ (calls[c].chain # 0 /\ builds[calls[c].chain].pc = "resolved") =>
                           /\ calls[c].promise = "resolved"
                           /\ calls[c].model =
                                 ExpectedBuilt(builds[calls[c].chain].value, calls[c].transform)
                     /\ (calls[c].chain = 0) =>
                           /\ calls[c].promise = "resolved"
                           /\ \E k \in BuildIds :
                                 /\ builds[k].pc = "resolved"
                                 /\ calls[c].model = ExpectedBuilt(builds[k].value, calls[c].transform)
                ELSE /\ Count(calls[c].trace, "getModel") = 1
                     /\ Count(calls[c].trace, "listen") = 1
                     /\ Cardinality({i \in DOMAIN listeners : listeners[i] = c}) = 1
                     /\ calls[c].promise = "resolved" =>
                           /\ calls[c].first # None
                           /\ calls[c].model = ExpectedModel(calls[c], calls[c].first[1]))

C11_Witness ==
    \E c \in CallIds, k \in BuildIds :
       /\ OnBuilderPath(calls[c])
       /\ calls[c].chain = k /\ builds[k].pc = "resolved" /\ builds[k].value = Json
       /\ calls[c].transform
       /\ calls[c].model = <<"T", "json">>
       /\ calls[c].pc = "done"
       /\ Count(sent, "getModel") = 0

\* the builder of build k resolves in this step
BuildResolves(k) == builds[k].pc = "pending" /\ builds'[k].pc = "resolved"

\* C12: buildModel sends generateStarted before it invokes the builder; when the builder
\* resolves with v, v is stored as the cached model, the promise buildModel returned
\* resolves with v, and generateFinished is sent exactly once, after v was cached.
C12_BuildModelResolves ==
    /\ [][\A k \in BuildIds :
             BuildResolves(k) =>
                /\ modelBuilderResult' = builds'[k].value
                /\ builds'[k].promise = "resolved"
                /\ builds'[k].settled = builds'[k].value
                /\ Count(sent', "generateFinished") > Count(sent, "generateFinished")]_vars
    /\ [](\A k \in BuildIds :
             LET t == builds[k].trace
             IN /\ Pos(t, "builder") > 0 => Before(t, "generateStarted", "builder")
                /\ builds[k].pc = "pending" => Count(t, "generateFinished") = 0
                /\ builds[k].pc = "resolved" =>
                      /\ builds[k].value \in BuiltModels
                      /\ Count(t, "generateStarted") = 1
                      /\ Count(t, "generateFinished") = 1
                      /\ Before(t, "builder", "cached")
                      /\ Before(t, "cached", "resolved")
                      /\ Before(t, "cached", "generateFinished"))

C12_Witness ==
    \E k \in BuildIds :
       /\ builds[k].pc = "resolved"
       /\ builds[k].settled = Json
       /\ modelBuilderResult = Json
       /\ builds[k].trace = <<"log", "generateStarted", "builder",
                              "cached", "log", "resolved", "generateFinished">>

\* the builder of build k rejects in this step
BuildRejects(k) == builds[k].pc = "pending" /\ builds'[k].pc = "failed"

\* C13: when the builder rejects with reason e, the promise buildModel returned rejects
\* with the same e, the reason is not logged and no model is cached: modelBuilderResult
\* keeps its value, which is null unless another build resolved.
C13_BuilderRejects ==
    /\ [][\A k \in BuildIds :
             BuildRejects(k) =>
                /\ modelBuilderResult' = modelBuilderResult
                /\ Count(sent', "log") = Count(sent, "log")
                /\ Count(sent', "generateFinished") = Count(sent, "generateFinished")]_vars
    /\ [](\A k \in BuildIds :
             builds[k].pc = "failed" =>
                /\ builds[k].error \in Errors
                /\ builds[k].promise = "rejected"
                /\ builds[k].settled = builds[k].error
                /\ Count(builds[k].trace, "log") = 1
                /\ Count(builds[k].trace, "cached") = 0)
    /\ []((\A k \in BuildIds : builds[k].pc # "resolved") => modelBuilderResult = Null)

C13_Witness ==
    \E k \in BuildIds :
       /\ builds[k].pc = "failed"
       /\ builds[k].error = <<"E2">>
       /\ builds[k].settled = <<"E2">>
       /\ modelBuilderResult = Null
       /\ proc = "running"

\* C14: when the destination of a call cannot be opened, the 'open' handler never runs:
\* no StreamWriter is created, the template callback is never invoked, nothing is
\* written, and no generateFinished follows the generateStarted the call has sent.
C14_OpenFailure ==
    /\ \A c \in CallIds :
          calls[c].pc = "openFailed" =>
             /\ Count(calls[c].trace, "generateStarted") = 1
             /\ Count(calls[c].trace, "open") = 0
             /\ Count(calls[c].trace, "callback") = 0
             /\ Count(calls[c].trace, "generateFinished") = 0
             /\ calls[c].stream = "none"
             /\ calls[c].out = <<>>
    /\ (\E c \in CallIds : calls[c].pc = "openFailed") =>
          Count(sent, "generateFinished") < Count(sent, "generateStarted")

C14_Witness ==
    \E c \in CallIds :
       /\ calls[c].pc = "openFailed"
       /\ calls[c].kind = "generateFromModel"
       /\ Count(calls[c].trace, "generateStarted") = 1
       /\ proc = "crashed"

(* ------------------------------------------------------------------ *)
(* Properties of the StreamWriter                                       *)
(* ------------------------------------------------------------------ *)
\* C15: the indent level is a non-negative integer in every reachable state:
\* decreaseIndent at level 0 leaves it at 0 and lowers it by one otherwise,
\* increaseIndent raises it by one, clearIndent sets it to 0.
C15_IndentNeverNegative ==
    /\ writer.indent \in Nat
    /\ writer.op = "decreaseIndent" =>
          writer.indent = IF writer.before.indent = 0 THEN 0 ELSE writer.before.indent - 1
    /\ writer.op = "increaseIndent" => writer.indent = writer.before.indent + 1
    /\ writer.op = "clearIndent" => writer.indent = 0

C15_Witness ==
    /\ writer.op = "decreaseIndent"
    /\ writer.before.indent = 0
    /\ writer.indent = 0
    /\ ~writer.before.pure

\* the latest call is the first writeLine(value) or writeIndent after nothing but
\* increaseIndent / decreaseIndent calls on the fresh writer
RendersAfterIndentCalls ==
    /\ writer.before.pure
    /\ \/ writer.op = "writeIndent"
       \/ writer.op = "writeLine" /\ writer.arg[1] # None

\* the length of the indent prefix that call wrote
PrefixLen ==
    IF writer.op = "writeIndent" THEN Len(writer.chunk)
    ELSE Len(writer.chunk) - Len(writer.arg[1][1]) - Len(writer.endOfLineString)

Max(a, b) == IF a >= b THEN a ELSE b

RECURSIVE LevelAfter(_, _)
\* the level the calls of h lead to from level: a decrease at level 0 changes nothing
LevelAfter(h, level) ==
    IF h = <<>> THEN level
    ELSE LevelAfter(Tail(h), IF Head(h) = "increaseIndent" THEN level + 1
                             ELSE IF level > 0 THEN level - 1 ELSE 0)

WroteBlankLine == writer.op = "writeLine" /\ writer.arg = <<None>>

\* C17 as stated: writeLine() without an argument, in any writer state, writes exactly
\* one line terminator and no indent, adds one to loc and leaves sloc unchanged.
C17_BlankLineAnyState ==
    WroteBlankLine =>
       /\ writer.chunk = writer.endOfLineString
       /\ writer.loc = writer.before.loc + 1
       /\ writer.sloc = writer.before.sloc

\* C17, amended: writeLine() without an argument writes exactly one line terminator and
\* no indent, or nothing at all while the end of line is suppressed; in both cases it
\* adds one to loc and leaves sloc unchanged.
C17_BlankLine ==
    WroteBlankLine =>
       /\ writer.chunk = IF writer.noEndOfLine THEN <<>> ELSE writer.endOfLineString
       /\ writer.loc = writer.before.loc + 1
       /\ writer.sloc = writer.before.sloc

C17_Witness ==
    /\ WroteBlankLine
    /\ writer.indent = 2 /\ ~writer.noIndent /\ ~writer.noEndOfLine /\ writer.countSloc
    /\ writer.chunk = <<"\r", "\n">>
    /\ writer.before.loc = 1 /\ writer.loc = 2 /\ writer.sloc = 1

\* a value that is a line with content
HasContent(v) == v # None /\ v[1] # <<>>

\* the calls that produce one line, and the number of lines of the latest call that
\* carry content
OneLineOps == {"writeLine", "writeLineIndented", "writeEndOfLine"}
ContentLines == Cardinality({i \in DOMAIN writer.arg : HasContent(writer.arg[i])})

\* C18: every line-producing call adds one to loc for each line, and sloc grows only
\* for lines with non-empty content while counting is not frozen: a line with empty
\* content (writeLine(""), writeEndOfLine() without a value) never adds to sloc.
C18_SlocOnlyForContent ==
    /\ writer.op \in OneLineOps => writer.loc = writer.before.loc + 1
    /\ writer.op = "writeLines" => writer.loc = writer.before.loc + Len(writer.arg)
    /\ writer.op \in OneLineOps \cup {"writeLines"} =>
          /\ writer.sloc >= writer.before.sloc
          /\ writer.sloc <= writer.before.sloc
                               + (IF writer.before.countSloc THEN ContentLines ELSE 0)

\* C19: N writeLine calls with non-empty values between freezeSloc() and unfreezeSloc()
\* leave sloc unchanged and add exactly N to loc, for every N.
C19_FrozenLinesCountInLocOnly ==
    writer.mark # None =>
       /\ writer.sloc = writer.mark[1].sloc
       /\ writer.loc = writer.mark[1].loc + writer.mark[1].n

C19_Witness ==
    /\ writer.mark # None
    /\ writer.mark[1].closed
    /\ writer.mark[1].n = 2
    /\ writer.mark[1].sloc = 1
    /\ writer.op = "unfreezeSloc"
    /\ writer.loc = 3 /\ writer.sloc = 1

\* C20: once withFrozenSloc has been left, however its block ended (it returned, there
\* was none, or it threw), counting is active again, so a non-empty writeLine right
\* after it adds to sloc.
C20_CountingResumes ==
    /\ writer.op \in LeaveOps => writer.countSloc
    /\ (writer.op = "writeLine" /\ HasContent(writer.arg[1]) /\ writer.before.left) =>
          writer.sloc = writer.before.sloc + 1

(* ------------------------------------------------------------------ *)
(* Embedding files and file regions                                     *)
(* ------------------------------------------------------------------ *)
\* the latest call was writeFileRegion with a region name and a path that are not empty
RegionCall ==
    /\ writer.op = "writeFileRegion"
    /\ writer.io.regionName \notin {None, Some(<<>>)}
    /\ writer.io.path \notin {None, Some("")}

\* what the cache holds for the path of the latest call (None: nothing to search)
CachedContents ==
    IF writer.io.path[1] \in DOMAIN writer.textFileCache
    THEN writer.textFileCache[writer.io.path[1]]
    ELSE None

\* the text between the first startMarker of contents and the first endMarker that follows it
Between(contents, startMarker, endMarker) ==
    LET s == IndexOf(contents, startMarker, 0)
        e == IF s < 0 THEN -1 ELSE IndexOf(contents, endMarker, s + Len(startMarker))
    IN IF s < 0 \/ e < 0 THEN None ELSE Some(SubSeq(contents, s + Len(startMarker) + 1, e))

\* the region the latest call asked for, in the contents cached for its path
CachedRegion ==
    IF CachedContents = None
    THEN None
    ELSE Between(CachedContents[1],
                 GetRegionStartMarker(writer.fileRegionMapper, writer.io.regionName[1]),
                 GetRegionEndMarker(writer.fileRegionMapper, writer.io.regionName[1]))

\* the line terminator a line-producing call writes in the writer's state
Terminator == IF writer.noEndOfLine THEN <<>> ELSE writer.endOfLineString

\* C21: whatever the formatter and the cached contents, a writeFileRegion call whose contents
\* hold the start marker and, after it, the end marker writes exactly the text between the two
\* markers, then one line terminator, and returns true.
C21_RegionBetweenMarkers ==
    (RegionCall /\ CachedRegion # None)
        => /\ writer.chunk = CachedRegion[1] \o Terminator
           /\ writer.io.result = Some(TRUE)

\* the file of the example: the start marker of region foo, a line BODY, the end marker
FooFile ==
    <<"/", "/", "/", " ", "<", "f", "o", "o", ">",
      "\n", "B", "O", "D", "Y", "\n",
      "/", "/", "/", " ", "<", "/", "f", "o", "o", ">">>

\* the latest call is writeFileRegion("foo", path) with the default formatter, on that file
FooCall ==
    /\ RegionCall
    /\ writer.fileRegionMapper = DefaultRegionMarkerFormatter
    /\ writer.io.regionName = Some(Foo)
    /\ fs[writer.io.path[1]] = FooFile
    /\ CachedContents = Some(FooFile)

\* C22 (as stated): with the default formatter, writeFileRegion("foo", path) on the file
\* "/// <foo>", newline, "BODY", newline, "/// </foo>" writes exactly BODY and a newline,
\* followed by the active line terminator, and returns true.
C22_WritesBodyLine ==
    FooCall => /\ writer.chunk = <<"B", "O", "D", "Y", "\n">> \o Terminator
               /\ writer.io.result = Some(TRUE)

\* C22 (amended): the call writes everything between the two markers, which is a newline,
\* BODY and a newline, followed by the active line terminator, and returns true.
C22_WritesTextBetweenMarkers ==
    FooCall => /\ writer.chunk = <<"\n", "B", "O", "D", "Y", "\n">> \o Terminator
               /\ writer.io.result = Some(TRUE)

C22_Witness == FooCall /\ ~writer.noEndOfLine /\ writer.endOfLineString = <<"\r", "\n">>

\* the latest call left the counters and the indent level as they were
CountersUnchanged ==
    /\ writer.loc = writer.before.loc
    /\ writer.sloc = writer.before.sloc
    /\ writer.indent = writer.before.indent

\* C23: a writeFileRegion call whose file is absent or empty, or whose contents lack the start
\* marker or lack the end marker after the start marker, returns false, writes nothing and
\* leaves loc, sloc and the indent level unchanged.
C23_MissReturnsFalse ==
    (RegionCall /\ CachedRegion = None)
        => /\ writer.io.result = Some(FALSE)
           /\ writer.chunk = <<>>
           /\ CountersUnchanged

\* the step is a writeFileRegion call with a region name or a path that is missing or empty
RegionCallWithoutArgument ==
    /\ writer'.ops = writer.ops + 1
    /\ writer'.op = "writeFileRegion"
    /\ \/ writer'.io.regionName \in {None, Some(<<>>)}
       \/ writer'.io.path \in {None, Some("")}

\* C24: writeFileRegion with an empty or missing region name or path returns false before any
\* file access: it reads no file, adds no entry to the file cache and writes nothing.
C24_MissingArgumentTouchesNothing ==
    [][RegionCallWithoutArgument
          => /\ writer'.io.result = Some(FALSE)
             /\ ~writer'.io.accessed
             /\ writer'.textFileCache = writer.textFileCache
             /\ writer'.chunk = <<>>]_vars

C24_Witness ==
    /\ writer.op = "writeFileRegion"
    /\ writer.io.regionName = Some(<<>>)
    /\ writer.io.path = Some("a")
    /\ fs["a"] = FooFile
    /\ writer.textFileCache = EmptyCache
    /\ writer.io.result = Some(FALSE)

\* what the first writeFileRegion call for the path and region of the latest call did
FirstCall == writer.first[<<writer.io.path, writer.io.regionName>>]

\* C25: within one writer the first read of a path by writeFileRegion wins: a later
\* writeFileRegion for the same path and region returns what the first one returned and writes
\* the text the first one wrote, whatever happened to the file in between, also when the first
\* read found the file absent or empty.
C25_FirstReadWins ==
    RegionCall
        => /\ writer.io.result = Some(FirstCall.result)
           /\ writer.noEndOfLine = FirstCall.noEndOfLine => writer.chunk = FirstCall.chunk

\* the step is a writeFile call
FileCall == writer'.ops = writer.ops + 1 /\ writer'.op = "writeFile"

\* the text of a file, with and without a leading byte order mark
TextsOf(contents) ==
    IF contents = Absent THEN {<<>>}
    ELSE IF contents # <<>> /\ contents[1] = Bom THEN {contents, Tail(contents)}
    ELSE {contents}

\* C26: writeFile neither reads from nor adds to the file cache: each call writes the text the
\* file holds at the time of the call (a leading byte order mark aside), also when the path was
\* cached by writeFileRegion; nothing for a missing file; and the cache changes only in
\* writeFileRegion calls.
C26_WriteFileBypassesCache ==
    [][/\ FileCall => /\ writer'.chunk \in TextsOf(fs[writer'.io.path[1]])
                      /\ writer'.textFileCache = writer.textFileCache
       /\ writer'.textFileCache # writer.textFileCache => writer'.op = "writeFileRegion"]_vars

C26_Witness ==
    /\ writer.op = "writeFile"
    /\ writer.io.path = Some("a")
    /\ "a" \in DOMAIN writer.textFileCache
    /\ writer.textFileCache["a"] = Some(FooFile)
    /\ fs["a"] \notin {Absent, FooFile}
    /\ writer.chunk = fs["a"]
    /\ writer.chunk # <<>>

(* ------------------------------------------------------------------ *)
(* write, writeLineIndented and the suppression toggles                 *)
(* ------------------------------------------------------------------ *)
\* the step is a call of the method name
Calls(name) == writer'.ops = writer.ops + 1 /\ writer'.op = name

\* C27: write(value) appends value verbatim, without indent and without terminator; write with
\* a null or absent value writes nothing; either way loc, sloc, the indent level and the two
\* suppression toggles stay as they are.
C27_WriteIsVerbatim ==
    [][Calls("write")
          => /\ writer'.chunk = (IF writer'.arg[1] = None THEN <<>> ELSE writer'.arg[1][1])
             /\ writer'.loc = writer.loc
             /\ writer'.sloc = writer.sloc
             /\ writer'.indent = writer.indent
             /\ writer'.noIndent = writer.noIndent
             /\ writer'.noEndOfLine = writer.noEndOfLine]_vars

C27_Witness ==
    /\ writer.op = "write"
    /\ writer.arg = <<Some(<<"x">>)>>
    /\ writer.indent > 0
    /\ ~writer.noIndent
    /\ ~writer.noEndOfLine
    /\ writer.loc > 0
    /\ writer.chunk = <<"x">>

\* the step is writeLineIndented(value): what it writes after the prefix, and the level it leaves
IndentedLine(prefix) ==
    /\ writer'.chunk = prefix \o Text(writer'.arg[1])
                          \o (IF writer.noEndOfLine THEN <<>> ELSE writer.endOfLineString)
    /\ writer'.indent = writer.indent

\* the step is the writeLine(value) that follows a writeLineIndented call directly
LineAfterIndentedLine ==
    writer.op = "writeLineIndented" /\ Calls("writeLine") /\ writer'.arg[1] # None

\* what that writeLine writes after the prefix
NextLine(prefix) ==
    writer'.chunk = prefix \o writer'.arg[1][1]
                       \o (IF writer.noEndOfLine THEN <<>> ELSE writer.endOfLineString)

\* C28 (as stated): writeLineIndented(value) writes one line prefixed with level + 1 indent
\* units and leaves the level unchanged, so the next writeLine is prefixed with level units.
C28_OneMoreUnit ==
    [][/\ Calls("writeLineIndented")
            => IndentedLine(Rep(writer.indentString, writer.indent + 1))
       /\ LineAfterIndentedLine
            => NextLine(Rep(writer.indentString, writer.before.indent))]_vars

\* C28 (amended): the same while indentation is not suppressed; while it is suppressed both
\* lines are written without any prefix, and the level is unchanged all the same.
C28_OneMoreUnitUnlessSuppressed ==
    [][/\ Calls("writeLineIndented")
            => IndentedLine(IF writer.noIndent THEN <<>>
                            ELSE Rep(writer.indentString, writer.indent + 1))
       /\ LineAfterIndentedLine
            => NextLine(IF writer.noIndent THEN <<>>
                        ELSE Rep(writer.indentString, writer.before.indent))]_vars

C28_Witness ==
    /\ writer.op = "writeLineIndented"
    /\ writer.arg = <<Some(<<"x">>)>>
    /\ writer.indent = 1
    /\ writer.before.indent = 1
    /\ ~writer.noIndent
    /\ ~writer.noEndOfLine
    /\ writer.chunk = Rep(writer.indentString, 2) \o <<"x">> \o writer.endOfLineString

IndentingOps == {"writeLine", "writeLines", "writeLineIndented", "writeIndent"}
LineOps == {"writeLine", "writeLines", "writeLineIndented", "writeEndOfLine"}
Toggles == {"suppressIndent", "resumeIndent", "suppressEndOfLine", "resumeEndOfLine"}

\* the step is a method call
AnyCall == writer'.ops = writer.ops + 1

\* the characters of the sequence s
Chars(s) == {s[i] : i \in DOMAIN s}

\* the values and delimiters of the model hold no indent character and no line terminator, so
\* the call of the step emitted indentation / a terminator iff its output holds such a character
EmitsIndentation == Chars(writer'.chunk) \cap Chars(writer.indentString) # {}
EmitsTerminator == Chars(writer'.chunk) \cap Chars(writer.endOfLineString) # {}

\* C29: both toggles are inactive on a fresh writer; from suppressIndent until resumeIndent no
\* writeLine, writeLines, writeLineIndented or writeIndent call emits indentation; from
\* suppressEndOfLine until resumeEndOfLine no line-producing call emits a line terminator; the
\* toggles never change the indent level, and the writeLine after resumeIndent is prefixed with
\* level repetitions of the indent unit again.
C29_Suppression ==
    [][/\ writer.ops = 0 => ~writer.noIndent /\ ~writer.noEndOfLine
       \* the flags are set by suppress..., cleared by resume..., and kept by every other call
       /\ AnyCall => /\ writer'.noIndent =
                           CASE writer'.op = "suppressIndent" -> TRUE
                             [] writer'.op = "resumeIndent" -> FALSE
                             [] OTHER -> writer.noIndent
                     /\ writer'.noEndOfLine =
                           CASE writer'.op = "suppressEndOfLine" -> TRUE
                             [] writer'.op = "resumeEndOfLine" -> FALSE
                             [] OTHER -> writer.noEndOfLine
       /\ (AnyCall /\ writer.noIndent /\ writer'.op \in IndentingOps) => ~EmitsIndentation
       /\ (AnyCall /\ writer.noEndOfLine /\ writer'.op \in LineOps) => ~EmitsTerminator
       /\ (AnyCall /\ writer'.op \in Toggles) => writer'.indent = writer.indent
       /\ (writer.op = "resumeIndent" /\ Calls("writeLine") /\ writer'.arg[1] # None)
            => NextLine(Rep(writer.indentString, writer.indent))]_vars

C29_Witness ==
    /\ writer.op = "writeLineIndented"
    /\ writer.arg = <<Some(<<"x">>)>>
    /\ writer.indent > 0
    /\ writer.noIndent
    /\ writer.noEndOfLine
    /\ writer.chunk = <<"x">>

(* ------------------------------------------------------------------ *)
(* One StreamWriter for each call                                       *)
(* ------------------------------------------------------------------ *)
\* the formatter the options of call record r ask for
FormatterOf(r) ==
    IF r.formatter = None THEN DefaultRegionMarkerFormatter ELSE r.formatter[1]

\* the step opens the destination of call c
Opens(c) == calls[c].stream # "open" /\ calls'[c].stream = "open"

\* the step is a method call on the writer of call c
CallsOn(c) == calls[c].cw # None /\ calls'[c].cw # calls[c].cw

\* writer w1 wrote a piece of the contents its own cache holds for file "a", and a terminator
WroteFromOwnCache(w1) ==
    LET contents == w1.textFileCache["a"][1]
    IN \E i, j \in 0..Len(contents) :
          w1.chunk = SubSeq(contents, i + 1, j) \o w1.endOfLineString

\* the step is writeFileRegion("foo", "a") on the writer of call c: the result follows from the
\* contents in that writer's cache and the start marker of that writer's formatter
RegionFromOwnState(c) ==
    LET w0 == calls[c].cw[1]
        w1 == calls'[c].cw[1]
        found == IndexOf(w1.textFileCache["a"][1],
                         GetRegionStartMarker(FormatterOf(calls[c]), Foo), 0) >= 0
    IN /\ "a" \in DOMAIN w0.textFileCache => w1.textFileCache = w0.textFileCache
       /\ w1.io.result = Some(found)
       /\ IF found THEN WroteFromOwnCache(w1) ELSE w1.chunk = <<>>

\* C30: every call that opens its destination gets a new StreamWriter with an empty cache,
\* level 0 and the formatter of its own options (the default one when there is none); a call on
\* one writer changes no other writer and no other call's output, and what a writer writes
\* follows from its own level, its own cache and its own formatter.
C30_OneWriterPerCall ==
    [][\A c \in CallIds :
          /\ Opens(c)
               => /\ calls'[c].cw # None
                  /\ calls'[c].cw[1].textFileCache = EmptyCache
                  /\ calls'[c].cw[1].indent = 0
                  /\ calls'[c].cw[1].ops = 0
                  /\ calls'[c].cw[1].fileRegionMapper = FormatterOf(calls[c])
          /\ CallsOn(c)
               => /\ calls'[c].cw[1].fileRegionMapper = FormatterOf(calls[c])
                  /\ calls'[c].out = calls[c].out \o calls'[c].cw[1].chunk
                  /\ \A d \in CallIds \ {c} :
                        calls'[d].cw = calls[d].cw /\ calls'[d].out = calls[d].out
                  /\ calls'[c].cw[1].op = "writeLine"
                       => calls'[c].cw[1].chunk =
                             Rep(calls[c].cw[1].indentString, calls[c].cw[1].indent)
                                \o <<"x">> \o calls[c].cw[1].endOfLineString
                  /\ calls'[c].cw[1].op = "writeFileRegion" => RegionFromOwnState(c)]_vars

C30_Witness ==
    /\ calls[1].cw # None
    /\ calls[2].cw # None
    /\ calls[1].formatter = Some(DashFormatter)
    /\ calls[2].formatter = None
    /\ calls[1].cw[1].fileRegionMapper = DashFormatter
    /\ calls[2].cw[1].fileRegionMapper = DefaultRegionMarkerFormatter
    /\ calls[1].cw[1].indent = 1
    /\ calls[2].cw[1].indent = 0
    /\ calls[1].cw[1].textFileCache # EmptyCache
    /\ calls[2].cw[1].textFileCache # EmptyCache
    /\ calls[1].cw[1].textFileCache # calls[2].cw[1].textFileCache
    /\ calls[2].cw[1].op = "writeFileRegion"
    /\ calls[2].cw[1].io.result = Some(TRUE)
    /\ calls[2].cw[1].chunk = Body \o <<"\n">>

(* ------------------------------------------------------------------ *)
(* The session: startup values, message pairs, listeners                *)
(* ------------------------------------------------------------------ *)
\* the positions of the flag --templateArgs in the argument vector a
TemplateArgsFlags(a) == {i \in DOMAIN a : a[i] = "--templateArgs"}

\* what the flag gives: the JSON value after its last occurrence, null when there is no flag,
\* no value after it or an empty value
FlagValue(a) ==
    IF TemplateArgsFlags(a) = {} THEN Null
    ELSE LET i == CHOOSE j \in TemplateArgsFlags(a) : \A l \in TemplateArgsFlags(a) : l <= j
         IN IF i = Len(a) \/ a[i + 1] = "" THEN Null ELSE <<a[i + 1]>>

\* C31: after construction templateArgs is the JSON value parsed from the --templateArgs flag,
\* or null when the flag is absent or its value is empty or missing; and no operation of the
\* running generator changes templateArgs or the default output mode.
C31_TemplateArgsFromFlag ==
    [][/\ proc' = "running" => templateArgs' = FlagValue(args')
       /\ proc = "running" => templateArgs' = templateArgs /\ outputMode' = outputMode]_vars

Started == Count(sent, "generateStarted")
Finished == Count(sent, "generateFinished")

\* C32: in every reachable state at most as many generateFinished as generateStarted messages
\* were sent, and no generate-family call and no buildModel call sent more than one
\* generateFinished.
C32_FinishedNeverExceedsStarted ==
    /\ Finished <= Started
    /\ \A c \in CallIds : Count(calls[c].trace, "generateFinished") <= 1
    /\ \A k \in BuildIds : Count(builds[k].trace, "generateFinished") <= 1

C32_Witness ==
    /\ builds[1].pc = "resolved"
    /\ calls[1].pc = "done"
    /\ calls[2].pc = "done"
    /\ Finished = 3
    /\ Started = 3

\* a template callback runs or its promise is awaited, or a builder is pending
WorkInProgress ==
    \/ \E c \in CallIds : calls[c].pc = "running"
    \/ \E k \in BuildIds : builds[k].pc = "pending"

\* C33: whenever a template callback is executing or awaited, or a builder started by
\* buildModel is pending, generateStarted was sent strictly more often than generateFinished.
C33_PairOpenWhileWorking == WorkInProgress => Started > Finished

C33_Witness ==
    /\ builds[1].pc = "resolved"
    /\ calls[1].pc = "done"
    /\ calls[2].pc = "running"
    /\ Started = 3
    /\ Finished = 2

\* the listener of call c is attached
Listening(c) == \E i \in 1..Len(listeners) : listeners[i] = c

\* C34: on the host path getModel attaches its setModel listener before it sends the
\* getModel request: every call that sent the request is listening from then on, and every
\* setModel message it waited for found its listener attached.
C34_ListenerBeforeRequest ==
    \A c \in CallIds :
       LET t == calls[c].trace
       IN /\ Pos(t, "getModel") > 0 =>
               /\ Before(t, "listen", "getModel")
               /\ Listening(c)
          /\ calls[c].pc = "awaitModel" => Pos(t, "getModel") > 0 /\ Listening(c)
          /\ Pos(t, "setModel") > 0 => Before(t, "listen", "setModel")

C34_Witness ==
    \E c \in CallIds :
       /\ Listening(c)
       /\ calls[c].promise = "resolved"
       /\ SubSeq(calls[c].trace, 1, 3) = <<"listen", "getModel", "setModel">>

\* the host-path calls whose promise is settled in this step
SettledByReply ==
    {c \in CallIds : /\ calls[c].pc = "awaitModel"
                     /\ calls[c].promise = "pending"
                     /\ calls'[c].promise # "pending"}

\* C35: when two getModel calls are pending on the host path, a setModel reply settles the
\* promise of one call only and leaves the other pending until the next reply arrives.
C35_OneReplyOneCall ==
    [][Cardinality(SettledByReply) <= 1]_vars

\* call c took its model from build k and the builder of k rejected
FromFailedBuild(c, k) ==
    /\ OnBuilderPath(calls[c])
    /\ calls[c].chain = k
    /\ builds[k].pc = "failed"

\* C36: when the builder passed to buildModel rejects, no getModel call made during or
\* after that build resolves, and no template callback is invoked with a model of the
\* failed build.
C36_FailedBuildYieldsNoModel ==
    \A c \in CallIds : \A k \in BuildIds :
       FromFailedBuild(c, k) =>
          /\ calls[c].promise # "resolved"
          /\ Count(calls[c].trace, "callback") = 0

\* call c ran with effective mode Once and its template callback was invoked
OnceCallback(c) ==
    /\ calls[c].mode = Some(OnceMode)
    /\ Count(calls[c].trace, "callback") > 0

\* C37: of the calls with effective mode Once that target the same output path, including
\* calls made back to back before the first destination is opened, at most one has its
\* template callback invoked, so at most one writer writes to that path.
C37_OnceRunsOneTemplate ==
    \A c, d \in CallIds :
       (c # d /\ calls[c].file = calls[d].file) => ~(OnceCallback(c) /\ OnceCallback(d))

(* ------------------------------------------------------------------ *)
(* The counters of the StreamWriter                                     *)
(* ------------------------------------------------------------------ *)
\* the latest call wrote lines inside a withFrozenSloc block that has not been left and in
\* which unfreezeSloc was not called, or between freezeSloc and unfreezeSloc
InFrozenScope ==
    /\ writer.op \in OneLineOps \cup {"writeLines"}
    /\ \/ writer.depth > 0 /\ ~writer.scope.thawed
       \/ writer.scope.held

\* C38: no line written inside a withFrozenSloc block or between freezeSloc and unfreezeSloc
\* adds to sloc, also when the block is nested in another withFrozenSloc block: the lines
\* written after the inner block, still inside the outer one, are not counted.
C38_FrozenScopeNeverCounts ==
    InFrozenScope => writer.sloc = writer.before.sloc

(* ------------------------------------------------------------------ *)
(* The cached model and the transforms                                  *)
(* ------------------------------------------------------------------ *)
\* call c got its model from a build whose builder had resolved
FromCache(c) ==
    /\ OnBuilderPath(calls[c])
    /\ calls[c].promise = "resolved"

\* C39: getModel does not change the model cached by buildModel: the cache keeps the value
\* the builder resolved with, a getModel call without a transform resolves with that value,
\* and two getModel calls with the same transform resolve with equal models.
C39_CacheUnchangedByGetModel ==
    \A k \in BuildIds :
       builds[k].pc = "resolved" =>
          /\ modelBuilderResult = builds[k].value
          /\ \A c \in CallIds :
                (FromCache(c) /\ ~calls[c].transform) => calls[c].model = builds[k].value
          /\ \A c, d \in CallIds :
                (FromCache(c) /\ FromCache(d) /\ calls[c].transform /\ calls[d].transform)
                   => calls[c].model = calls[d].model

\* the calls that produce no line
NoLineOps ==
    {"write", "writeWhiteSpace", "writeIndent", "writeFile",
     "increaseIndent", "decreaseIndent", "clearIndent",
     "suppressIndent", "resumeIndent", "suppressEndOfLine", "resumeEndOfLine",
     "freezeSloc", "unfreezeSloc",
     "withFrozenSloc", "withFrozenSloc:enter", "withFrozenSloc:return", "withFrozenSloc:throw"}

\* C40: in every state of a StreamWriter 0 <= sloc <= loc, no call makes a counter smaller,
\* and write, writeWhiteSpace, writeIndent, writeFile, the indent operations, the suppression
\* toggles and the freeze operations leave both counters as they were.
C40_CountersAreMonotone ==
    /\ 0 <= writer.sloc
    /\ writer.sloc <= writer.loc
    /\ writer.loc >= writer.before.loc
    /\ writer.sloc >= writer.before.sloc
    /\ writer.op \in NoLineOps =>
          /\ writer.loc = writer.before.loc
          /\ writer.sloc = writer.before.sloc

C40_Witness ==
    /\ writer.op = "writeFile"
    /\ writer.chunk = <<"A">>
    /\ writer.loc = 2
    /\ writer.sloc = 1
    /\ writer.before.loc = 2
    /\ ~writer.countSloc

====
